---- MODULE Spec2Model ----
(***************************************************************************)
(* The exercise session of DevAbility Hub (ExerciseView.tsx) as a state    *)
(* machine: the React state of the component, one action per event handler *)
(* or timer callback.                                                      *)
(*                                                                         *)
(* Strings that the code inspects (ids, answers, pair strings) are         *)
(* sequences of UTF-16 code units, so that formatting, sorting, trimming   *)
(* and case folding are computed and not assumed.  Type tags and toast     *)
(* titles, which the code only compares for equality, are TLA+ strings.    *)
(***************************************************************************)
EXTENDS Integers, Sequences, FiniteSets, TLC

\* ------------------------------------------------------------------ bounds
\* validations that may be waiting for their 500 ms timer at the same time
MaxPending == 1
\* loading timers (300 ms) that may be waiting at the same time
MaxLoadTimers == 1

\* ----------------------------------------------------------------- strings
\* null / undefined for values that are otherwise non-empty strings
Null == <<>>

\* the code unit of '-'
Hyphen == <<45>>

\* s < t in the order of Array.prototype.sort() without comparator:
\* code unit by code unit, a proper prefix first
RECURSIVE StrLess(_, _)
StrLess(s, t) ==
    IF t = <<>> THEN FALSE
    ELSE IF s = <<>> THEN TRUE
    ELSE IF Head(s) # Head(t) THEN Head(s) < Head(t)
    ELSE StrLess(Tail(s), Tail(t))

\* insert string x into the sorted sequence of strings sorted
RECURSIVE InsertSorted(_, _)
InsertSorted(x, sorted) ==
    IF sorted = <<>> THEN <<x>>
    ELSE IF StrLess(Head(sorted), x) \/ Head(sorted) = x
         THEN <<Head(sorted)>> \o InsertSorted(x, Tail(sorted))
         ELSE <<x>> \o sorted

\* [...arr].sort() on an array of strings
RECURSIVE SortStrings(_)
SortStrings(arr) ==
    IF arr = <<>> THEN <<>>
    ELSE InsertSorted(Head(arr), SortStrings(Tail(arr)))

\* white space that String.prototype.trim() removes (space, tab, LF, CR)
IsSpace(c) == c \in {32, 9, 10, 13}

RECURSIVE TrimStart(_)
TrimStart(s) ==
    IF s # <<>> /\ IsSpace(Head(s)) THEN TrimStart(Tail(s)) ELSE s

RECURSIVE TrimEnd(_)
TrimEnd(s) ==
    IF s # <<>> /\ IsSpace(s[Len(s)]) THEN TrimEnd(SubSeq(s, 1, Len(s) - 1)) ELSE s

\* String.prototype.trim()
Trim(s) == TrimEnd(TrimStart(s))

\* String.prototype.toLowerCase() on the ASCII letters
ToLowerCase(s) == [i \in 1..Len(s) |-> IF s[i] \in 65..90 THEN s[i] + 32 ELSE s[i]]

\* the elements of a sequence
Range(seq) == {seq[i] : i \in 1..Len(seq)}

\* filterOut with the predicate always true: nothing is removed
filterOutNothing(list, id) == list

\* Array.prototype.filter(item => item.id !== id) on a list of items
filterOut(list, id) == SelectSeq(list, LAMBDA item : item # id)

\* an object used as a map: a function on its keys; {} is the empty function
EmptyMap == <<>>

\* { ...map, [key]: value }
MapSet(map, key, value) ==
    [k \in (DOMAIN map) \cup {key} |-> IF k = key THEN value ELSE map[k]]

\* const copy = { ...map } without the delete
MapDeleteNothing(map, key) == map

\* const copy = { ...map }; delete copy[key]
MapDelete(map, key) == [k \in (DOMAIN map) \ {key} |-> map[k]]

\* --------------------------------------------------------------- ids
a1 == <<97, 49>>
a2 == <<97, 50>>
b1 == <<98, 49>>
b2 == <<98, 50>>
o1 == <<111, 49>>
o2 == <<111, 50>>
o3 == <<111, 51>>
d1 == <<100, 49>>
d2 == <<100, 50>>
dx == <<100, 120>>
c1 == <<99, 49>>
c2 == <<99, 50>>
c3 == <<99, 51>>

\* 'unassigned-items-droppable', the id of the unassigned drop zone
UnassignedDroppable ==
    <<117, 110, 97, 115, 115, 105, 103, 110, 101, 100, 45, 105, 116, 101, 109,
      115, 45, 100, 114, 111, 112, 112, 97, 98, 108, 101>>

\* a droppable id that is neither a category nor the unassigned zone
ElsewhereDroppable == <<120>>

\* event.over === null: the drag was released over no droppable
NoOver == <<>>

\* ------------------------------------------------------------- exercises
\* option texts
TextColunaA1 == <<67, 111, 108, 117, 110, 97, 32, 65, 58, 32, 120>>   \* 'Coluna A: x'
TextColunaA2 == <<99, 111, 108, 117, 110, 97, 32, 97, 58, 121>>   \* 'coluna a:y'
TextColunaB1 == <<67, 111, 108, 117, 110, 97, 32, 66, 58, 32, 122>>   \* 'Coluna B: z'
TextColunaB2 == <<67, 79, 76, 85, 78, 65, 32, 66, 58, 32, 119>>   \* 'COLUNA B: w'
TextPlain == <<105, 116, 101, 109>>   \* 'item'
TextWordA == <<97>>   \* 'a'
TextWordB == <<98>>   \* 'b'

\* 'coluna a:' and 'coluna b:', the prefixes that put an option in a column
PrefixColunaA == <<99, 111, 108, 117, 110, 97, 32, 97, 58>>
PrefixColunaB == <<99, 111, 108, 117, 110, 97, 32, 98, 58>>

\* the shapes of correctAnswer and of userAnswer
Undefined == [kind |-> "undefined", val |-> <<>>]
Str(s) == [kind |-> "string", val |-> s]
Arr(a) == [kind |-> "array", val |-> a]
Obj(m) == [kind |-> "object", val |-> m]

Opt(id, text) == [id |-> id, text |-> text]

Exercise(id, type, hasOptions, options, hasTargetCategories, targetCategories, correctAnswer) ==
    [id |-> id, type |-> type, hasOptions |-> hasOptions, options |-> options,
     hasTargetCategories |-> hasTargetCategories,
     targetCategories |-> targetCategories, correctAnswer |-> correctAnswer]

AssociationOptions ==
    << Opt(a1, TextColunaA1), Opt(b1, TextColunaB1),
       Opt(a2, TextColunaA2), Opt(b2, TextColunaB2) >>
OrderingOptions == << Opt(o1, TextPlain), Opt(o2, TextPlain), Opt(o3, TextPlain) >>
DragOptions == << Opt(d1, TextPlain), Opt(d2, TextPlain) >>
DragCategories == << c1, c2, c3 >>

\* the exercises ExerciseView looks its exerciseId up in
mockExercises ==
    { Exercise("mc1", "multiple-choice", TRUE,
               << Opt(o1, TextWordA), Opt(o2, TextWordB) >>, FALSE, <<>>, Str(o1)),
      Exercise("fill1", "fill-in-the-blank", TRUE,
               << Opt(o1, TextWordA), Opt(o2, TextWordB) >>, FALSE, <<>>, Str(TextWordA)),
      Exercise("fill2", "fill-in-the-blank", FALSE, <<>>, FALSE, <<>>, Str(<<32, 65>>)),
      Exercise("code1", "coding", FALSE, <<>>, FALSE, <<>>, Str(<<>>)),
      Exercise("assoc1", "association", TRUE, AssociationOptions, FALSE, <<>>,
               Arr(<< a2 \o Hyphen \o b2, a1 \o Hyphen \o b1 >>)),
      Exercise("assoc2", "association", TRUE, AssociationOptions, FALSE, <<>>,
               Arr(<< a1 \o Hyphen \o b1 >>)),
      Exercise("assoc3", "association", TRUE, AssociationOptions, FALSE, <<>>,
               Arr(<< a1 \o Hyphen \o b1, a1 \o Hyphen \o b1 >>)),
      Exercise("ord1", "ordering", TRUE, OrderingOptions, FALSE, <<>>,
               Arr(<< o1, o2, o3 >>)),
      Exercise("ord2", "ordering", TRUE, OrderingOptions, FALSE, <<>>,
               Arr(<< o1, o2 >>)),
      Exercise("ord3", "ordering", TRUE, OrderingOptions, FALSE, <<>>,
               Arr(<< o1, o2, o3, o1 >>)),
      Exercise("ord4", "ordering", TRUE, << Opt(o1, TextPlain) >>, FALSE, <<>>,
               Arr(<< o1 >>)),
      Exercise("ord5", "ordering", TRUE, <<>>, FALSE, <<>>, Arr(<<>>)),
      Exercise("mc2", "multiple-choice", TRUE,
               << Opt(o1, TextWordA), Opt(o2, TextWordB) >>, FALSE, <<>>, Arr(<< o1 >>)),
      Exercise("ord6", "ordering", TRUE, << Opt(o1, TextPlain), Opt(o2, TextPlain) >>,
               FALSE, <<>>, Str(o1)),
      Exercise("dnd1", "drag-and-drop", TRUE, DragOptions, TRUE, DragCategories,
               Obj([i \in {d1, d2} |-> IF i = d1 THEN c1 ELSE c2])),
      Exercise("dnd2", "drag-and-drop", TRUE, DragOptions, TRUE, DragCategories,
               Obj([i \in {d1, d2, dx} |-> IF i = d1 THEN c1 ELSE c2])),
      Exercise("dnd3", "drag-and-drop", TRUE, << Opt(d1, TextPlain) >>, TRUE, << c1 >>,
               Obj([i \in {d1} |-> c1])),
      Exercise("unk1", "quiz", FALSE, <<>>, FALSE, <<>>, Str(TextWordA)) }

\* an exerciseId that no exercise has
MissingId == "missing"

\* the exercise state before any exercise was found
NoExercise == "null"

\* mockExercises.find(e => e.id === exerciseId)
Found(id) == \E e \in mockExercises : e.id = id
Find(id) == CHOOSE e \in mockExercises : e.id = id

\* options.map(item => item.id)
Ids(options) == [i \in 1..Len(options) |-> options[i].id]

\* text.toLowerCase().startsWith(prefix)
StartsWithLower(text, prefix) ==
    /\ Len(text) >= Len(prefix)
    /\ SubSeq(ToLowerCase(text), 1, Len(prefix)) = prefix

\* the permutations of a sequence: what sort(() => Math.random() - 0.5) may return
Shuffles(seq) ==
    { p \in [1..Len(seq) -> Range(seq)] :
        \A x \in Range(seq) :
            Cardinality({i \in 1..Len(seq) : p[i] = x})
                = Cardinality({i \in 1..Len(seq) : seq[i] = x}) }

\* ------------------------------------------------------------------ state
VARIABLES
    exerciseId,           \* the exerciseId prop the effect last ran for ("" before the mount effect)
    exercise,             \* id of the exercise in the exercise state, or NoExercise
    isLoading,
    loadTimers,           \* setTimeout(() => setIsLoading(false), 300) calls still waiting
    userAnswer,
    isSubmitted,
    isCorrect,            \* "null", "true" or "false"
    itemsA, itemsB,       \* ids of the two columns of an association exercise
    selectedItemA, selectedItemB,
    formedAssociations,   \* sequence of [itemAId, itemBId]
    orderedItems,         \* ids, in the displayed order
    unassignedItems,      \* ids
    categorizedItemsMap,  \* category id -> sequence of item ids
    userCategorizations,  \* item id -> category id
    activeDragId,
    itemFeedback,         \* item id -> BOOLEAN
    dragActive,           \* the drag the DndContext has in progress: its item id, or Null
    pending,              \* the handleSubmit calls waiting at their await, oldest first
    toast                 \* title of the toast the last step raised, "" for none

\* LessonView
VARIABLES
    lesson,                     \* the lesson prop: [id, content], or NoLesson
    processedContentElements,   \* the tokens the parser made of lesson.content
    paragraphs,                 \* what renderContentWithParagraphs made of the tokens
    totalInteractiveElements,
    completedInteractionIds,    \* the Set, as the sequence of its members in insertion order
    isMarkingComplete,
    prevLesson, nextLesson,     \* a lesson, or NoLesson for null
    localStorage,               \* key -> the string stored under it
    authLoading, userProfile,   \* useAuth(): userProfile is [present, completedLessons]
    inFlight,                   \* the markLessonCompletedAction calls not yet resolved
    lessonToast,                \* title of the toast the last step raised, "" for none
    thrown                      \* an exception left the effect on [lesson]

\* renderTextWithBold, called with a text of its own
VARIABLES
    boldText,                   \* the text argument
    parts                       \* the parts it returned

contentVars == << lesson, processedContentElements, paragraphs, totalInteractiveElements >>
progressVars == << completedInteractionIds, isMarkingComplete, prevLesson, nextLesson,
                   localStorage, thrown >>
authVars == << authLoading, userProfile >>
lessonVars == << contentVars, progressVars, authVars, inFlight, lessonToast >>
boldVars == << boldText, parts >>

exerciseVars == << exerciseId, exercise, isLoading, loadTimers, userAnswer, isSubmitted,
           isCorrect, itemsA, itemsB, selectedItemA, selectedItemB,
           formedAssociations, orderedItems, unassignedItems, categorizedItemsMap,
                   userCategorizations, activeDragId, itemFeedback, dragActive, pending,
                   toast >>

vars == << exerciseVars, lessonVars, boldVars >>

associationVars == << itemsA, itemsB, selectedItemA, selectedItemB, formedAssociations >>
dragVars == << unassignedItems, categorizedItemsMap, userCategorizations,
               activeDragId, itemFeedback, dragActive >>
timerVars == << isLoading, loadTimers, pending >>
identityVars == << exerciseId, exercise >>

\* no LessonView is on the page
NoLesson == [id |-> <<>>, content |-> <<>>]

\* userProfile is null
NoProfile == [present |-> FALSE, completedLessons |-> {}]

\* the useState initial values of LessonView, and nobody signed in
NoSession ==
    /\ completedInteractionIds = <<>>
    /\ isMarkingComplete = FALSE
    /\ prevLesson = NoLesson
    /\ nextLesson = NoLesson
    /\ localStorage = EmptyMap
    /\ authLoading = FALSE
    /\ userProfile = NoProfile
    /\ inFlight = <<>>
    /\ lessonToast = ""
    /\ thrown = FALSE

NoLessonView ==
    /\ lesson = NoLesson
    /\ processedContentElements = <<>>
    /\ paragraphs = <<>>
    /\ totalInteractiveElements = 0
    /\ NoSession
    /\ boldText = <<>>
    /\ parts = <<>>

\* the useState initial values; the mount effect has not run yet
ExerciseViewInit ==
    /\ exerciseId = ""
    /\ exercise = NoExercise
    /\ isLoading = TRUE
    /\ loadTimers = 0
    /\ userAnswer = Undefined
    /\ isSubmitted = FALSE
    /\ isCorrect = "null"
    /\ itemsA = <<>>
    /\ itemsB = <<>>
    /\ selectedItemA = Null
    /\ selectedItemB = Null
    /\ formedAssociations = <<>>
    /\ orderedItems = <<>>
    /\ unassignedItems = <<>>
    /\ categorizedItemsMap = EmptyMap
    /\ userCategorizations = EmptyMap
    /\ activeDragId = Null
    /\ itemFeedback = EmptyMap
    /\ dragActive = Null
    /\ pending = <<>>
    /\ toast = ""

\* an ExerciseView on its own page
Init == ExerciseViewInit /\ NoLessonView

\* the exercise the component renders
Ex == Find(exercise)

\* the component renders the exercise card (not the spinner, not 'not found')
Rendered == ~isLoading /\ exercise # NoExercise

\* the inputs of the exercise are enabled: (!isSubmitted || (isSubmitted && !isCorrect))
Editable == ~isSubmitted \/ (isSubmitted /\ isCorrect # "true")

\* ClearSubmission without setIsCorrect(null)
ClearSubmissionKeepsVerdict ==
    /\ isSubmitted' = FALSE
    /\ isCorrect' = isCorrect

\* if(isSubmitted) { setIsSubmitted(false); setIsCorrect(null); }
ClearSubmission ==
    /\ isSubmitted' = FALSE
    /\ isCorrect' = IF isSubmitted THEN "null" ELSE isCorrect

\* ------------------------------------------------- the effect on exerciseId
\* colA / colB of the association initialisation
Column(options, prefix) ==
    Ids(SelectSeq(options, LAMBDA opt : StartsWithLower(opt.text, prefix)))

\* the useEffect on [exerciseId]: runs at mount and whenever the prop changes
ChangeExercise(ids) ==
    \E id \in ids :
        /\ id # exerciseId
        /\ dragActive = Null
        /\ loadTimers < MaxLoadTimers
        /\ exerciseId' = id
        /\ isLoading' = TRUE
        /\ loadTimers' = loadTimers + 1
        /\ isSubmitted' = FALSE
        /\ isCorrect' = "null"
        /\ dragActive' = Null
        /\ toast' = ""
        /\ UNCHANGED << lessonVars, boldVars, activeDragId, pending >>
        /\ IF Found(id)
           THEN LET found == Find(id) IN
                /\ exercise' = id
                /\ formedAssociations' = <<>>
                /\ selectedItemA' = Null
                /\ selectedItemB' = Null
                /\ itemFeedback' = EmptyMap
                /\ userCategorizations' = EmptyMap
                /\ IF found.type = "association" /\ found.hasOptions
                   THEN /\ itemsA' = Column(found.options, PrefixColunaA)
                        /\ itemsB' = Column(found.options, PrefixColunaB)
                   ELSE UNCHANGED << itemsA, itemsB >>
                /\ IF found.type = "ordering" /\ found.hasOptions
                   THEN \E shuffled \in Shuffles(Ids(found.options)) :
                            /\ orderedItems' = shuffled
                            /\ userAnswer' = Arr(shuffled)
                   ELSE /\ orderedItems' = <<>>
                        /\ userAnswer' = Undefined
                /\ IF found.type = "drag-and-drop" /\ found.hasOptions
                   THEN /\ unassignedItems' = Ids(found.options)
                        /\ categorizedItemsMap' =
                               [cat \in (IF found.hasTargetCategories
                                         THEN Range(found.targetCategories)
                                         ELSE {}) |-> <<>>]
                   ELSE /\ unassignedItems' = <<>>
                        /\ categorizedItemsMap' = EmptyMap
           ELSE UNCHANGED << exercise, userAnswer, associationVars, orderedItems,
                             unassignedItems, categorizedItemsMap,
                             userCategorizations, itemFeedback >>

\* setTimeout(() => setIsLoading(false), 300) fires
LoadingDone ==
    /\ loadTimers > 0
    /\ loadTimers' = loadTimers - 1
    /\ isLoading' = FALSE
    /\ toast' = ""
    /\ UNCHANGED << lessonVars, boldVars, identityVars, userAnswer, isSubmitted, isCorrect, associationVars,
                    orderedItems, dragVars, pending >>

\* ---------------------------------------------------------- drag and drop
\* the drag-and-drop board is rendered (DndContext with its droppables)
BoardRendered ==
    /\ Rendered
    /\ Ex.type = "drag-and-drop"
    /\ Ex.hasOptions
    /\ Ex.hasTargetCategories

\* (categorizedItemsMap[category.id] || [])
ItemsOf(map, cat) == IF cat \in DOMAIN map THEN map[cat] ELSE <<>>

\* the items the board renders as DraggableItem
RenderedItems ==
    Range(unassignedItems)
        \cup UNION { Range(ItemsOf(categorizedItemsMap, Ex.targetCategories[i])) :
                        i \in 1..Len(Ex.targetCategories) }

\* useDraggable({ disabled: isSubmitted && isCorrect }) of DraggableItem, with
\* isCorrect = isSubmitted && itemFeedback[id] !== undefined ? itemFeedback[id] : undefined
DragDisabled(item) ==
    isSubmitted /\ item \in DOMAIN itemFeedback /\ itemFeedback[item]

\* the ids over.id can take: the droppables of the board, and one that is neither
DropTargets == Range(Ex.targetCategories) \cup {UnassignedDroppable, ElsewhereDroppable}

\* several set calls of one state in one handler: the last one is the next state
LastWrite(writes) == writes[Len(writes)]

handleDragStart(item) ==
    /\ BoardRendered
    /\ dragActive = Null
    /\ item \in RenderedItems
    /\ ~DragDisabled(item)
    /\ activeDragId' = item
    /\ dragActive' = item
    /\ ClearSubmission
    /\ itemFeedback' = IF isSubmitted THEN EmptyMap ELSE itemFeedback
    /\ toast' = ""
    /\ UNCHANGED << lessonVars, boldVars, identityVars, timerVars, userAnswer, associationVars, orderedItems,
                    unassignedItems, categorizedItemsMap, userCategorizations >>

\* exercise.targetCategories?.some(cat => cat.id === targetContainerId)
IsTargetCategory(ex, targetContainerId) ==
    ex.hasTargetCategories /\ targetContainerId \in Range(ex.targetCategories)

handleDragEnd(over) ==
    /\ dragActive # Null
    /\ BoardRendered
    /\ activeDragId' = Null
    /\ dragActive' = Null
    /\ LET draggedItemId == dragActive
           targetContainerId == over
           newUnassignedItems == filterOut(unassignedItems, draggedItemId)
           newCategorizedItemsMap ==
               [catId \in DOMAIN categorizedItemsMap |->
                   filterOut(categorizedItemsMap[catId], draggedItemId)]
           itemToMove ==
               \/ draggedItemId \in Range(unassignedItems)
               \/ \E catId \in DOMAIN categorizedItemsMap :
                      draggedItemId \in Range(categorizedItemsMap[catId])
       IN IF over # NoOver /\ exercise # NoExercise /\ Ex.hasOptions /\ itemToMove
          THEN IF targetContainerId = UnassignedDroppable
               THEN /\ unassignedItems' =
                           LastWrite(<< Append(newUnassignedItems, draggedItemId),
                                        newUnassignedItems >>)
                    /\ userCategorizations' = MapDelete(userCategorizations, draggedItemId)
                    /\ categorizedItemsMap' = newCategorizedItemsMap
                    /\ userAnswer' = Obj(userCategorizations)
               ELSE IF IsTargetCategory(Ex, targetContainerId)
               THEN /\ unassignedItems' = newUnassignedItems
                    /\ userCategorizations' =
                           MapSet(userCategorizations, draggedItemId, targetContainerId)
                    /\ categorizedItemsMap' =
                           MapSet(newCategorizedItemsMap, targetContainerId,
                                  Append(ItemsOf(newCategorizedItemsMap, targetContainerId),
                                         draggedItemId))
                    /\ userAnswer' = Obj(userCategorizations)
               ELSE /\ unassignedItems' =
                           LastWrite(<< Append(newUnassignedItems, draggedItemId),
                                        newUnassignedItems >>)
                    /\ userCategorizations' = MapDelete(userCategorizations, draggedItemId)
                    /\ categorizedItemsMap' = newCategorizedItemsMap
                    /\ userAnswer' = Obj(userCategorizations)
          ELSE UNCHANGED << unassignedItems, userCategorizations, categorizedItemsMap,
                            userAnswer >>
    /\ toast' = ""
    /\ UNCHANGED << lessonVars, boldVars, identityVars, timerVars, isSubmitted, isCorrect, associationVars,
                    orderedItems, itemFeedback >>

DragStart == \E item \in {d1, d2} : handleDragStart(item)
DragEnd ==
    /\ BoardRendered
    /\ \E over \in DropTargets \cup {NoOver} : handleDragEnd(over)

\* ------------------------------------------------------------- validation
\* x === y for the values an answer can be: strings and undefined compare by
\* value, arrays and objects by identity (never equal to a stored correctAnswer)
StrictEquals(x, y) ==
    /\ x.kind = y.kind
    /\ x.kind \in {"string", "undefined"}
    /\ x.val = y.val

\* `${assoc.itemAId}-${assoc.itemBId}`
PairString(assoc) == assoc.itemAId \o Hyphen \o assoc.itemBId

\* the multiple-choice branch
validateMultipleChoice(answer, correctAnswer) == StrictEquals(answer, correctAnswer)

\* the fill-in-the-blank branch without the two toLowerCase() calls
validateFillInTheBlankNoFold(ex, answer) ==
    LET hasList == ex.hasOptions /\ Len(ex.options) > 0
        answerToCompare ==
            IF hasList \/ answer.kind # "string" THEN answer
            ELSE Str(Trim(answer.val))
        correctAnswerToCompare ==
            IF hasList THEN ex.correctAnswer
            ELSE Str(Trim(ex.correctAnswer.val))
    IN StrictEquals(answerToCompare, correctAnswerToCompare)

\* the fill-in-the-blank branch
validateFillInTheBlank(ex, answer) ==
    LET hasList == ex.hasOptions /\ Len(ex.options) > 0
        answerToCompare ==
            IF hasList \/ answer.kind # "string" THEN answer
            ELSE Str(ToLowerCase(Trim(answer.val)))
        correctAnswerToCompare ==
            IF hasList THEN ex.correctAnswer
            ELSE Str(ToLowerCase(Trim(ex.correctAnswer.val)))
    IN StrictEquals(answerToCompare, correctAnswerToCompare)

\* the association branch without the two sort() calls
validateAssociationUnsorted(associations, correctAnswersArray) ==
    IF Len(associations) # Len(correctAnswersArray) THEN FALSE
    ELSE \A index \in 1..Len(associations) :
             PairString(associations[index]) = correctAnswersArray[index]

\* the association branch
validateAssociation(associations, correctAnswersArray) ==
    IF Len(associations) # Len(correctAnswersArray) THEN FALSE
    ELSE LET userFormattedAssociations ==
                 SortStrings([i \in 1..Len(associations) |-> PairString(associations[i])])
             correctFormattedAnswers == SortStrings(correctAnswersArray)
         IN \A index \in 1..Len(userFormattedAssociations) :
                userFormattedAssociations[index] = correctFormattedAnswers[index]

\* the ordering branch without the comparison of the lengths
validateOrderingNoLength(answer, correctAnswer) ==
    \A index \in 1..Len(answer) :
        index <= Len(correctAnswer) /\ answer[index] = correctAnswer[index]

\* the ordering branch
validateOrdering(answer, correctAnswer) ==
    IF Len(answer) # Len(correctAnswer) THEN FALSE
    ELSE \A index \in 1..Len(answer) : answer[index] = correctAnswer[index]

\* userCategorizations[itemId] === correctAnswersMap[itemId]
SameCategory(categorizations, correctAnswersMap, itemId) ==
    /\ itemId \in DOMAIN correctAnswersMap
    /\ categorizations[itemId] = correctAnswersMap[itemId]

\* !userCategorizations[correctItemId]
NotCategorized(categorizations, correctItemId) ==
    \/ correctItemId \notin DOMAIN categorizations
    \/ categorizations[correctItemId] = <<>>

\* the drag-and-drop branch without the loop over the keys of correctAnswersMap
validateDragAndDropNoMissing(categorizations, correctAnswersMap, options) ==
    IF Cardinality(DOMAIN categorizations) # Len(options)
    THEN [allCorrect |-> FALSE, currentItemFeedback |-> EmptyMap]
    ELSE [allCorrect |->
              \A itemId \in DOMAIN categorizations :
                  SameCategory(categorizations, correctAnswersMap, itemId),
          currentItemFeedback |->
              [itemId \in DOMAIN categorizations |->
                  SameCategory(categorizations, correctAnswersMap, itemId)]]

\* the drag-and-drop branch: [allCorrect, currentItemFeedback]
validateDragAndDrop(categorizations, correctAnswersMap, options) ==
    IF Cardinality(DOMAIN categorizations) # Len(options)
    THEN [allCorrect |-> FALSE, currentItemFeedback |-> EmptyMap]
    ELSE LET missing == { correctItemId \in DOMAIN correctAnswersMap :
                             NotCategorized(categorizations, correctItemId) }
         IN [allCorrect |->
                 /\ \A itemId \in DOMAIN categorizations :
                        SameCategory(categorizations, correctAnswersMap, itemId)
                 /\ missing = {},
             currentItemFeedback |->
                 [itemId \in (DOMAIN categorizations) \cup missing |->
                     IF itemId \in missing THEN FALSE
                     ELSE SameCategory(categorizations, correctAnswersMap, itemId)]]

\* what handleSubmit computes after its await, from the values its call captured:
\* the verdict, whether it calls setItemFeedback and with what, and its last toast
Validate(call) ==
    LET ex == Find(call.exercise)
        none == [correct |-> FALSE, setsFeedback |-> FALSE, feedback |-> EmptyMap]
    IN IF ex.type = "multiple-choice" /\ ex.correctAnswer.kind = "string"
       THEN [none EXCEPT !.correct =
                validateMultipleChoice(call.userAnswer, ex.correctAnswer)]
       ELSE IF ex.type = "fill-in-the-blank" /\ ex.correctAnswer.kind = "string"
       THEN [none EXCEPT !.correct = validateFillInTheBlank(ex, call.userAnswer)]
       ELSE IF ex.type = "association" /\ ex.correctAnswer.kind = "array"
       THEN [none EXCEPT !.correct =
                validateAssociation(call.formedAssociations, ex.correctAnswer.val)]
       ELSE IF /\ ex.type = "ordering"
               /\ ex.correctAnswer.kind = "array"
               /\ call.userAnswer.kind = "array"
       THEN [none EXCEPT !.correct =
                validateOrdering(call.userAnswer.val, ex.correctAnswer.val)]
       ELSE IF /\ ex.type = "drag-and-drop"
               /\ ex.correctAnswer.kind = "object"
               /\ ex.hasOptions
       THEN LET r == validateDragAndDrop(call.userCategorizations,
                                         ex.correctAnswer.val, ex.options)
            IN [correct |-> r.allCorrect, setsFeedback |-> TRUE,
                feedback |-> r.currentItemFeedback]
       ELSE IF ex.type = "coding"
       THEN [none EXCEPT !.correct = TRUE]
       ELSE none

\* ----------------------------------------------------------------- submit
\* the submit button: disabled={isSubmitted && isCorrect === true && type !== 'coding'}
SubmitDisabled == isSubmitted /\ isCorrect = "true" /\ Ex.type # "coding"

\* answerProvided without userAnswer !== "" in its last branch
answerProvidedAllowsEmpty ==
    IF Ex.type = "association" THEN Len(formedAssociations) > 0
    ELSE IF Ex.type = "ordering"
    THEN userAnswer.kind = "array" /\ Len(userAnswer.val) > 0
    ELSE IF Ex.type = "drag-and-drop"
    THEN Ex.hasOptions /\ Cardinality(DOMAIN userCategorizations) = Len(Ex.options)
    ELSE /\ userAnswer.kind # "undefined"
         /\ (userAnswer.kind = "array" => Len(userAnswer.val) > 0)

\* answerProvided of handleSubmit
answerProvided ==
    IF Ex.type = "association" THEN Len(formedAssociations) > 0
    ELSE IF Ex.type = "ordering"
    THEN userAnswer.kind = "array" /\ Len(userAnswer.val) > 0
    ELSE IF Ex.type = "drag-and-drop"
    THEN Ex.hasOptions /\ Cardinality(DOMAIN userCategorizations) = Len(Ex.options)
    ELSE /\ userAnswer.kind # "undefined"
         /\ ~(userAnswer.kind = "string" /\ userAnswer.val = <<>>)
         /\ (userAnswer.kind = "array" => Len(userAnswer.val) > 0)

\* the early return of the drag-and-drop branch: some items categorized, not all
partlyCategorized ==
    /\ Ex.type = "drag-and-drop"
    /\ ~answerProvided
    /\ Ex.hasOptions
    /\ Cardinality(DOMAIN userCategorizations) > 0
    /\ Cardinality(DOMAIN userCategorizations) < Len(Ex.options)

\* the values of this render that the call keeps in its closure; of the answer
\* state only what the validation branch of the exercise's type reads is kept
Captured ==
    [exercise |-> exercise,
     userAnswer |->
         IF Ex.type \in {"association", "drag-and-drop"} THEN Undefined ELSE userAnswer,
     formedAssociations |->
         IF Ex.type = "association" THEN formedAssociations ELSE <<>>,
     userCategorizations |->
         IF Ex.type = "drag-and-drop" THEN userCategorizations ELSE EmptyMap]

\* handleSubmit up to its await; the rest runs in ValidationDone
handleSubmit ==
    /\ Rendered
    /\ ~SubmitDisabled
    /\ dragActive = Null
    /\ IF partlyCategorized
       THEN /\ toast' = "Categorizacao Incompleta"
            /\ UNCHANGED << isSubmitted, itemFeedback, pending >>
       ELSE IF ~answerProvided
       THEN /\ toast' = "Resposta Incompleta"
            /\ UNCHANGED << isSubmitted, itemFeedback, pending >>
       ELSE /\ Len(pending) < MaxPending
            /\ isSubmitted' = TRUE
            /\ itemFeedback' = EmptyMap
            /\ pending' = Append(pending, Captured)
            /\ toast' = ""
    /\ UNCHANGED << lessonVars, boldVars, identityVars, isLoading, loadTimers, userAnswer, isCorrect,
                    associationVars, orderedItems, unassignedItems, categorizedItemsMap,
                    userCategorizations, activeDragId, dragActive >>

\* ValidationDone with setIsCorrect called inside the branches only: an exercise
\* that no branch takes gets no verdict
ValidationDoneBranchOnly ==
    /\ pending # <<>>
    /\ LET call == Head(pending)
           ex == Find(call.exercise)
           result == Validate(call)
           coding == ex.type = "coding"
           taken == \/ ex.type \in {"multiple-choice", "fill-in-the-blank"}
                       /\ ex.correctAnswer.kind = "string"
                    \/ ex.type \in {"association", "ordering"}
                       /\ ex.correctAnswer.kind = "array"
                    \/ ex.type = "drag-and-drop" /\ ex.correctAnswer.kind = "object"
                    \/ coding
       IN /\ isCorrect' = IF ~taken THEN isCorrect
                          ELSE IF result.correct THEN "true" ELSE "false"
          /\ itemFeedback' = IF result.setsFeedback THEN result.feedback ELSE itemFeedback
          /\ toast' = IF coding THEN "Exercicio Enviado (Placeholder)"
                      ELSE IF result.correct THEN "Correto!" ELSE "Incorreto"
    /\ pending' = Tail(pending)
    /\ UNCHANGED << lessonVars, boldVars, identityVars, isLoading, loadTimers, userAnswer, isSubmitted,
                    associationVars, orderedItems, unassignedItems, categorizedItemsMap,
                    userCategorizations, activeDragId, dragActive >>

\* the 500 ms timer of the oldest waiting handleSubmit fires: the call resumes
\* with the exercise and the answer it captured when it was made
ValidationDone ==
    /\ pending # <<>>
    /\ LET call == Head(pending)
           result == Validate(call)
           coding == Find(call.exercise).type = "coding"
       IN /\ isCorrect' = IF result.correct THEN "true" ELSE "false"
          /\ itemFeedback' = IF result.setsFeedback THEN result.feedback ELSE itemFeedback
          /\ toast' = IF coding THEN "Exercicio Enviado (Placeholder)"
                      ELSE IF result.correct THEN "Correto!" ELSE "Incorreto"
    /\ pending' = Tail(pending)
    /\ UNCHANGED << lessonVars, boldVars, identityVars, isLoading, loadTimers, userAnswer, isSubmitted,
                    associationVars, orderedItems, unassignedItems, categorizedItemsMap,
                    userCategorizations, activeDragId, dragActive >>


\* ------------------------------------------------------------ association
\* formedAssociations.some(fa => fa.itemAId === item.id), of the column A buttons
pairedA(item) == \E i \in 1..Len(formedAssociations) : formedAssociations[i].itemAId = item

\* formedAssociations.some(fa => fa.itemBId === item.id), of the column B buttons
pairedB(item) == \E i \in 1..Len(formedAssociations) : formedAssociations[i].itemBId = item

AssociationRendered == Rendered /\ Ex.type = "association"

\* onClick of a column A button
selectItemA(item) ==
    /\ AssociationRendered
    /\ item \in Range(itemsA)
    /\ Editable
    /\ ~pairedA(item)
    /\ selectedItemA' = item
    /\ toast' = ""
    /\ UNCHANGED << lessonVars, boldVars, identityVars, timerVars, userAnswer, isSubmitted, isCorrect, itemsA,
                    itemsB, selectedItemB, formedAssociations, orderedItems, dragVars >>

\* onClick of a column B button
selectItemB(item) ==
    /\ AssociationRendered
    /\ item \in Range(itemsB)
    /\ Editable
    /\ ~pairedB(item)
    /\ selectedItemB' = item
    /\ toast' = ""
    /\ UNCHANGED << lessonVars, boldVars, identityVars, timerVars, userAnswer, isSubmitted, isCorrect, itemsA,
                    itemsB, selectedItemA, formedAssociations, orderedItems, dragVars >>

\* the 'Formar Par' button:
\* disabled={!selectedItemA || !selectedItemB || (isSubmitted && isCorrect === true)}
AddDisabled ==
    selectedItemA = Null \/ selectedItemB = Null \/ (isSubmitted /\ isCorrect = "true")

\* handleAddAssociation as a plain append: no test for items already associated,
\* the selection is kept
handleAddAssociationUnchecked ==
    /\ AssociationRendered
    /\ ~AddDisabled
    /\ selectedItemA \in Range(itemsA)
    /\ selectedItemB \in Range(itemsB)
    /\ formedAssociations' =
           Append(formedAssociations,
                  [itemAId |-> selectedItemA, itemBId |-> selectedItemB])
    /\ ClearSubmission
    /\ toast' = ""
    /\ UNCHANGED << lessonVars, boldVars, identityVars, timerVars, userAnswer, itemsA, itemsB, selectedItemA,
                    selectedItemB, orderedItems, dragVars >>

handleAddAssociation ==
    /\ AssociationRendered
    /\ ~AddDisabled
    /\ IF /\ selectedItemA # Null
          /\ selectedItemB # Null
          /\ selectedItemA \in Range(itemsA)
          /\ selectedItemB \in Range(itemsB)
       THEN LET alreadyAssociatedA ==
                    \E i \in 1..Len(formedAssociations) :
                        formedAssociations[i].itemAId = selectedItemA
                alreadyAssociatedB ==
                    \E i \in 1..Len(formedAssociations) :
                        formedAssociations[i].itemBId = selectedItemB
            IN IF alreadyAssociatedA \/ alreadyAssociatedB
               THEN /\ toast' = "Item ja associado"
                    /\ UNCHANGED << formedAssociations, selectedItemA, selectedItemB,
                                    isSubmitted, isCorrect >>
               ELSE /\ formedAssociations' =
                           Append(formedAssociations,
                                  [itemAId |-> selectedItemA, itemBId |-> selectedItemB])
                    /\ selectedItemA' = Null
                    /\ selectedItemB' = Null
                    /\ ClearSubmission
                    /\ toast' = ""
       ELSE /\ toast' = ""
            /\ UNCHANGED << formedAssociations, selectedItemA, selectedItemB,
                            isSubmitted, isCorrect >>
    /\ UNCHANGED << lessonVars, boldVars, identityVars, timerVars, userAnswer, itemsA, itemsB, orderedItems,
                    dragVars >>

\* prev.filter((_, index) => index !== indexToRemove), indexToRemove counted from 0
removeAt(prev, indexToRemove) ==
    [i \in 1..(Len(prev) - 1) |-> IF i <= indexToRemove THEN prev[i] ELSE prev[i + 1]]

\* the remove button of the pair at indexToRemove, rendered while Editable
handleRemoveAssociation(indexToRemove) ==
    /\ AssociationRendered
    /\ Editable
    /\ indexToRemove \in 0..(Len(formedAssociations) - 1)
    /\ formedAssociations' = removeAt(formedAssociations, indexToRemove)
    /\ ClearSubmission
    /\ toast' = ""
    /\ UNCHANGED << lessonVars, boldVars, identityVars, timerVars, userAnswer, itemsA, itemsB, selectedItemA,
                    selectedItemB, orderedItems, dragVars >>

SelectA == \E item \in {a1, a2} : selectItemA(item)
SelectB == \E item \in {b1, b2} : selectItemB(item)
RemoveAssociation == \E indexToRemove \in 0..1 : handleRemoveAssociation(indexToRemove)

\* --------------------------------------------------------------- ordering
\* moveItem without 'index > 0': the first row moved up is taken out and put
\* back by splice(-1, 0, item), that is before the last of the remaining rows
moveItemNoFirstCheck(prevItems, index, direction) ==
    LET n == Len(prevItems)
        swap(i, j) ==
            [k \in 1..n |-> IF k = i THEN prevItems[j]
                            ELSE IF k = j THEN prevItems[i] ELSE prevItems[k]]
        rest == Tail(prevItems)
    IN IF direction = "up" /\ index > 0 THEN swap(index + 1, index)
       ELSE IF direction = "up" /\ n > 1
       THEN SubSeq(rest, 1, n - 2) \o << prevItems[1] >> \o SubSeq(rest, n - 1, n - 1)
       ELSE IF direction = "down" /\ index < n - 1 THEN swap(index + 1, index + 2)
       ELSE prevItems

\* the updater of setOrderedItems in handleMoveItem; index counted from 0
moveItem(prevItems, index, direction) ==
    LET n == Len(prevItems)
        swap(i, j) ==
            [k \in 1..n |-> IF k = i THEN prevItems[j]
                            ELSE IF k = j THEN prevItems[i] ELSE prevItems[k]]
    IN IF direction = "up" /\ index > 0 THEN swap(index + 1, index)
       ELSE IF direction = "down" /\ index < n - 1 THEN swap(index + 1, index + 2)
       ELSE prevItems

\* a click on the up or down button of the row at index.  The buttons of the
\* first row (up) and of the last row (down) are rendered disabled; the handler
\* is modelled for every row, as it handles those calls itself
handleMoveItem(index, direction) ==
    /\ Rendered
    /\ Ex.type = "ordering"
    /\ index \in 0..(Len(orderedItems) - 1)
    /\ ~(isSubmitted /\ isCorrect = "true")
    /\ LET newItems == moveItem(orderedItems, index, direction)
       IN /\ orderedItems' = newItems
          /\ userAnswer' = Arr(newItems)
    /\ ClearSubmission
    /\ toast' = ""
    /\ UNCHANGED << lessonVars, boldVars, identityVars, timerVars, associationVars, dragVars >>

MoveItem == \E index \in 0..2, direction \in {"up", "down"} : handleMoveItem(index, direction)

\* ------------------------------------------- single-value exercise types
\* what the user may type into the free-text input or the code area
TypedTexts == { <<>>, <<97>>, <<32, 65, 32>>, <<98>> }

\* onValueChange of the RadioGroup (multiple-choice: the option id;
\* fill-in-the-blank with options: the option text); fires when the value changes
onValueChange(value) ==
    /\ Rendered
    /\ Ex.hasOptions
    /\ \/ /\ Ex.type = "multiple-choice"
          /\ value \in Range(Ids(Ex.options))
       \/ /\ Ex.type = "fill-in-the-blank"
          /\ Len(Ex.options) > 0
          /\ value \in {Ex.options[i].text : i \in 1..Len(Ex.options)}
    /\ Str(value) # userAnswer
    /\ Editable
    /\ userAnswer' = Str(value)
    /\ ClearSubmission
    /\ toast' = ""
    /\ UNCHANGED << lessonVars, boldVars, identityVars, timerVars, associationVars, orderedItems, dragVars >>

\* onChange of the free-text Input of a fill-in-the-blank without options
onInputChange(value) ==
    /\ Rendered
    /\ Ex.type = "fill-in-the-blank"
    /\ ~(Ex.hasOptions /\ Len(Ex.options) > 0)
    /\ value # (IF userAnswer.kind = "string" THEN userAnswer.val ELSE <<>>)
    /\ Editable
    /\ userAnswer' = Str(value)
    /\ ClearSubmission
    /\ toast' = ""
    /\ UNCHANGED << lessonVars, boldVars, identityVars, timerVars, associationVars, orderedItems, dragVars >>

\* onChange of the textarea of a coding exercise,
\* disabled={isSubmitted && isCorrect === true}
onCodeChange(value) ==
    /\ Rendered
    /\ Ex.type = "coding"
    /\ value # (IF userAnswer.kind = "string" THEN userAnswer.val ELSE <<>>)
    /\ ~(isSubmitted /\ isCorrect = "true")
    /\ userAnswer' = Str(value)
    /\ ClearSubmission
    /\ toast' = ""
    /\ UNCHANGED << lessonVars, boldVars, identityVars, timerVars, associationVars, orderedItems, dragVars >>

ValueChange == \E value \in {o1, o2, TextWordA, TextWordB} : onValueChange(value)
InputChange == \E value \in TypedTexts : onInputChange(value)
CodeChange == \E value \in TypedTexts : onCodeChange(value)

\* -------------------------------------------------------- specifications
\* drag-and-drop exercises
DragIds == {"dnd1", "dnd2", MissingId}
DragChange == ChangeExercise(DragIds)
NextDrag ==
    \/ DragChange
    \/ LoadingDone
    \/ DragStart
    \/ DragEnd
    \/ handleSubmit
    \/ ValidationDone
SpecDrag == Init /\ [][NextDrag]_vars

\* association exercises
AssociationIds == {"assoc1", "assoc2", "assoc3", MissingId}
AssociationChange == ChangeExercise(AssociationIds)
NextAssociation ==
    \/ AssociationChange
    \/ LoadingDone
    \/ SelectA
    \/ SelectB
    \/ handleAddAssociation
    \/ RemoveAssociation
    \/ handleSubmit
    \/ ValidationDone
SpecAssociation == Init /\ [][NextAssociation]_vars

\* ordering exercises
OrderingIds == {"ord1", "ord2", "ord3", "ord4", "ord5", MissingId}
OrderingChange == ChangeExercise(OrderingIds)
NextOrdering ==
    \/ OrderingChange
    \/ LoadingDone
    \/ MoveItem
    \/ handleSubmit
    \/ ValidationDone
SpecOrdering == Init /\ [][NextOrdering]_vars

\* one exercise of every type
AllIds ==
    {"mc1", "fill1", "fill2", "code1", "assoc2", "ord2", "ord5", "dnd1", "unk1", MissingId}
AnyChange == ChangeExercise(AllIds)
Next ==
    \/ AnyChange
    \/ LoadingDone
    \/ ValueChange
    \/ InputChange
    \/ CodeChange
    \/ SelectA
    \/ SelectB
    \/ handleAddAssociation
    \/ RemoveAssociation
    \/ MoveItem
    \/ DragStart
    \/ DragEnd
    \/ handleSubmit
    \/ ValidationDone
Spec == Init /\ [][Next]_vars

\* exercises of every type, two of them with a correctAnswer of another shape
\* than their type reads; the timer of an accepted submission always fires
ResolveIds == {"mc1", "mc2", "fill2", "code1", "assoc2", "ord6", "dnd3", "unk1", MissingId}
ResolveChange == ChangeExercise(ResolveIds)
NextResolve ==
    \/ ResolveChange
    \/ LoadingDone
    \/ ValueChange
    \/ InputChange
    \/ CodeChange
    \/ SelectA
    \/ SelectB
    \/ handleAddAssociation
    \/ RemoveAssociation
    \/ MoveItem
    \/ DragStart
    \/ DragEnd
    \/ handleSubmit
    \/ ValidationDone
SpecResolve == Init /\ [][NextResolve]_vars /\ WF_vars(ValidationDone)

\* ------------------------------------------------------------ properties
\* how many times item occurs in a list
Occurrences(list, item) == Cardinality({i \in 1..Len(list) : list[i] = item})

\* in how many places of the board item lies: the unassigned list and every category list
Placements(item) ==
    Occurrences(unassignedItems, item)
        + Cardinality({ <<catId, i>> \in (DOMAIN categorizedItemsMap) \X (1..2) :
                          /\ i <= Len(categorizedItemsMap[catId])
                          /\ categorizedItemsMap[catId][i] = item })

\* the exercise state holds a drag-and-drop exercise
DragExercise == exercise # NoExercise /\ Ex.type = "drag-and-drop"

\* C1: in a drag-and-drop exercise every option item lies in exactly one bucket
\* (the unassigned list or one category list), after initialisation and after
\* every drag move, so the buckets together hold as many items as there are options
C1_ItemsConserved ==
    DragExercise =>
        /\ \A item \in Range(Ids(Ex.options)) : Placements(item) = 1
        /\ Len(unassignedItems)
             + Cardinality({ <<catId, i>> \in (DOMAIN categorizedItemsMap) \X (1..2) :
                               i <= Len(categorizedItemsMap[catId]) })
             = Len(Ex.options)

\* C2: a drop of an item that lies in category X onto another target category Y
\* removes it from X's list, appends it to Y's list, maps the item to Y, and
\* leaves the unassigned list and every other category's list unchanged
C2_DropMovesBetweenCategories ==
    [][ \A X \in Range(DragCategories), Y \in Range(DragCategories) :
          ( /\ BoardRendered
            /\ X # Y
            /\ dragActive # Null
            /\ dragActive \in Range(ItemsOf(categorizedItemsMap, X))
            /\ IsTargetCategory(Ex, Y)
            /\ handleDragEnd(Y) )
          => /\ dragActive \notin Range(categorizedItemsMap'[X])
             /\ categorizedItemsMap'[X] = filterOut(categorizedItemsMap[X], dragActive)
             /\ categorizedItemsMap'[Y] = Append(categorizedItemsMap[Y], dragActive)
             /\ userCategorizations'[dragActive] = Y
             /\ unassignedItems' = unassignedItems
             /\ \A Z \in (DOMAIN categorizedItemsMap) \ {X, Y} :
                    categorizedItemsMap'[Z] = categorizedItemsMap[Z]
             /\ DOMAIN categorizedItemsMap' = DOMAIN categorizedItemsMap ]_vars

\* C2 witness: d1 lies in c2 after it was dropped there out of c1 (userAnswer
\* holds the categorizations before the drop), d2 still lies in c3
C2_Witness ==
    /\ exercise = "dnd1"
    /\ d1 \in Range(ItemsOf(categorizedItemsMap, c2))
    /\ d2 \in Range(ItemsOf(categorizedItemsMap, c3))
    /\ userAnswer.kind = "object"
    /\ d1 \in DOMAIN userAnswer.val
    /\ userAnswer.val[d1] = c1

\* C3: after a drop onto the unassigned zone, or onto a target that is neither a
\* category nor the unassigned zone, the dragged item is in the unassigned list,
\* in no category list and has no entry in userCategorizations
C3_DropReturnsToUnassigned ==
    [][ \A over \in {UnassignedDroppable, ElsewhereDroppable} :
          ( /\ BoardRendered
            /\ dragActive # Null
            /\ handleDragEnd(over) )
          => /\ dragActive \in Range(unassignedItems')
             /\ \A catId \in DOMAIN categorizedItemsMap' :
                    dragActive \notin Range(categorizedItemsMap'[catId])
             /\ dragActive \notin DOMAIN userCategorizations' ]_vars

\* a step of one of the editing handlers: selecting another option, typing,
\* forming or removing a pair, reordering an item, starting a drag
EditingStep ==
    \/ ValueChange
    \/ InputChange
    \/ CodeChange
    \/ (handleAddAssociation /\ formedAssociations' # formedAssociations)
    \/ RemoveAssociation
    \/ MoveItem
    \/ DragStart

FreshFor(id) ==
    LET found == Found(id)
        ex == Find(id)
    IN /\ isSubmitted = FALSE
       /\ isCorrect = "null"
       /\ formedAssociations = <<>>
       /\ selectedItemA = Null
       /\ selectedItemB = Null
       /\ itemFeedback = EmptyMap
       /\ userCategorizations = EmptyMap
       /\ IF found /\ ex.type = "ordering" /\ ex.hasOptions
          THEN /\ orderedItems \in Shuffles(Ids(ex.options))
               /\ userAnswer = Arr(orderedItems)
          ELSE /\ orderedItems = <<>>
               /\ userAnswer = Undefined
       /\ IF found /\ ex.type = "drag-and-drop" /\ ex.hasOptions
          THEN /\ unassignedItems = Ids(ex.options)
               /\ DOMAIN categorizedItemsMap = Range(ex.targetCategories)
               /\ \A catId \in DOMAIN categorizedItemsMap :
                      categorizedItemsMap[catId] = <<>>
          ELSE /\ unassignedItems = <<>>
               /\ categorizedItemsMap = EmptyMap

\* C5: whenever the exercise identifier changes, to any identifier, the session
\* state is the fresh one of the new identifier: answer unset (or the fresh order),
\* not submitted, no verdict, no pairs, no selections, no feedback, initial buckets
C5_ChangeResetsSession ==
    [][ exerciseId' # exerciseId => FreshFor(exerciseId)' ]_vars

\* no item is itemAId of two formed associations, none is itemBId of two
PairsOneToOne ==
    \A i \in 1..Len(formedAssociations), j \in 1..Len(formedAssociations) :
        i # j => /\ formedAssociations[i].itemAId # formedAssociations[j].itemAId
                 /\ formedAssociations[i].itemBId # formedAssociations[j].itemBId

\* C6: the formed associations are always one-to-one, and a 'Formar Par' step
\* either leaves the list unchanged or appends the selected pair, which it does
\* only when neither selected item is in a formed association already
C6_PairsOneToOne ==
    /\ []PairsOneToOne
    /\ [][ handleAddAssociation
             => \/ formedAssociations' = formedAssociations
                \/ /\ formedAssociations' =
                          Append(formedAssociations,
                                 [itemAId |-> selectedItemA, itemBId |-> selectedItemB])
                   /\ ~pairedA(selectedItemA)
                   /\ ~pairedB(selectedItemB) ]_vars

\* C6 witness: both items of each column are paired, crosswise, the pair of a2
\* formed first
C6_Witness ==
    /\ Len(formedAssociations) = 2
    /\ formedAssociations[1] = [itemAId |-> a2, itemBId |-> b1]
    /\ formedAssociations[2] = [itemAId |-> a1, itemBId |-> b2]

\* the pair strings of a list of associations, as a set
PairStrings(associations) == { PairString(associations[i]) : i \in 1..Len(associations) }

\* the validation of an association exercise resumes
AssociationVerdict ==
    /\ ValidationDone
    /\ Find(Head(pending).exercise).type = "association"

\* C7: the verdict of an association exercise is 'correct' exactly when the user
\* formed as many pairs as are expected and the set of the user's pair strings is
\* the set of the expected ones; forming the same pairs in another order gives
\* the same verdict
C7_AssociationVerdict ==
    [][ AssociationVerdict
          => LET user == Head(pending).formedAssociations
                 expected == Find(Head(pending).exercise).correctAnswer.val
             IN /\ (isCorrect' = "true")
                      <=> /\ Len(user) = Len(expected)
                          /\ PairStrings(user) = Range(expected)
                /\ isCorrect' \in {"true", "false"}
                /\ \A other \in Shuffles(user) :
                       validateAssociation(other, expected)
                           = validateAssociation(user, expected) ]_vars

\* C7 witness: assoc1 expects a2-b2, a1-b1; the user formed a1-b1 first and the
\* verdict is 'correct'
C7_Witness ==
    /\ exercise = "assoc1"
    /\ isSubmitted
    /\ isCorrect = "true"
    /\ Len(formedAssociations) = 2
    /\ formedAssociations[1] = [itemAId |-> a1, itemBId |-> b1]
    /\ toast = "Correto!"

\* the validation of a drag-and-drop exercise resumes
DragVerdict ==
    /\ ValidationDone
    /\ Find(Head(pending).exercise).type = "drag-and-drop"

OrderingVerdict ==
    /\ ValidationDone
    /\ Find(Head(pending).exercise).type = "ordering"

\* array.reverse()
Reverse(seq) == [i \in 1..Len(seq) |-> seq[Len(seq) + 1 - i]]

\* C9: the verdict of an ordering exercise is 'correct' exactly when the user's
\* id sequence is the expected sequence (same length, equal element by element);
\* the reversed expected sequence is 'incorrect' unless it is the expected one
C9_OrderingVerdict ==
    [][ OrderingVerdict
          => LET user == Head(pending).userAnswer.val
                 expected == Find(Head(pending).exercise).correctAnswer.val
             IN /\ (isCorrect' = "true") <=> (user = expected)
                /\ isCorrect' \in {"true", "false"}
                /\ (user = Reverse(expected) /\ Reverse(expected) # expected)
                       => isCorrect' = "false" ]_vars

\* C9 witness: ord1 expects o1 o2 o3; the order o3 o2 o1 is judged 'incorrect'
C9_Witness ==
    /\ exercise = "ord1"
    /\ isSubmitted
    /\ isCorrect = "false"
    /\ userAnswer = Arr(<< o3, o2, o1 >>)
    /\ toast = "Incorreto"

\* the exercise state holds an ordering exercise
OrderingExercise == exercise # NoExercise /\ Ex.type = "ordering"

\* C10: a move-up of the row at index i > 0 swaps it with row i - 1, a move-down
\* of the row at index i < n - 1 swaps it with row i + 1, the first row up and
\* the last row down leave the order unchanged; the ordered list is always a
\* permutation of the options and userAnswer is its id sequence
C10_MoveSwapsNeighbours ==
    /\ [](OrderingExercise =>
             /\ orderedItems \in Shuffles(Ids(Ex.options))
             /\ userAnswer = Arr(orderedItems))
    /\ [][ \A index \in 0..2, direction \in {"up", "down"} :
             handleMoveItem(index, direction)
               => LET n == Len(orderedItems)
                      row == index + 1
                      other == IF direction = "up" THEN row - 1 ELSE row + 1
                  IN IF other \in 1..n
                     THEN /\ orderedItems'[other] = orderedItems[row]
                          /\ orderedItems'[row] = orderedItems[other]
                          /\ Len(orderedItems') = n
                          /\ \A k \in (1..n) \ {row, other} :
                                 orderedItems'[k] = orderedItems[k]
                     ELSE orderedItems' = orderedItems ]_vars

\* C10 witness: the order o1 o2 o3 was submitted, then o2 was moved up
C10_Witness ==
    /\ exercise = "ord1"
    /\ exerciseId = "ord1"
    /\ ~isSubmitted
    /\ pending # <<>>
    /\ Head(pending).userAnswer = Arr(<< o1, o2, o3 >>)
    /\ orderedItems = << o2, o1, o3 >>

\* the answer of the session is incomplete: nothing chosen or typed, no pair
\* formed, an empty order, or, in a drag-and-drop exercise, an option item that
\* lies in no category list
Incomplete ==
    IF Ex.type = "association" THEN formedAssociations = <<>>
    ELSE IF Ex.type = "ordering" THEN userAnswer \in {Undefined, Arr(<<>>)}
    ELSE IF Ex.type = "drag-and-drop"
    THEN \/ ~Ex.hasOptions
         \/ \E i \in 1..Len(Ex.options) :
                \A cat \in DOMAIN categorizedItemsMap :
                    Ex.options[i].id \notin Range(categorizedItemsMap[cat])
    ELSE userAnswer \in {Undefined, Str(<<>>)}

\* the titles of the two warnings of handleSubmit
Warnings == {"Categorizacao Incompleta", "Resposta Incompleta"}

\* C11: a submit of an incomplete answer is refused: it raises a warning, starts
\* no validation and leaves isSubmitted, isCorrect and itemFeedback as they were;
\* a submit of a complete answer raises no warning and starts a validation
C11_IncompleteSubmitRefused ==
    [][ handleSubmit
          => IF Incomplete
             THEN /\ toast' \in Warnings
                  /\ pending' = pending
                  /\ isSubmitted' = isSubmitted
                  /\ isCorrect' = isCorrect
                  /\ itemFeedback' = itemFeedback
             ELSE /\ toast' \notin Warnings
                  /\ pending' # pending ]_vars

\* C11 witness: in dnd1 a complete categorisation was judged, one item was then
\* taken out of its category and the submit of the rest was refused: the
\* feedback of the earlier verdict is still there
C11_Witness ==
    /\ exercise = "dnd1"
    /\ toast = "Categorizacao Incompleta"
    /\ itemFeedback # EmptyMap
    /\ pending = <<>>
    /\ Cardinality(DOMAIN userCategorizations) = 1

\* the titles of the toasts that close a validation
VerdictToasts == {"Correto!", "Incorreto", "Exercicio Enviado (Placeholder)"}

\* C12: every accepted submission gets its verdict: the validation that waits
\* for its timer completes, and the step that completes it leaves isCorrect true
\* or false, whatever the exercise's type and the shape of its correctAnswer
C12_SubmissionResolves ==
    /\ [][ ValidationDone => isCorrect' \in {"true", "false"} ]_vars
    /\ (pending # <<>>) ~> (toast \in VerdictToasts /\ isCorrect \in {"true", "false"})

\* C12 witness: mc2 is a multiple-choice exercise whose correctAnswer is an array;
\* its submission was judged, with the verdict 'incorrect'
C12_Witness ==
    /\ exercise = "mc2"
    /\ exerciseId = "mc2"
    /\ userAnswer = Str(o1)
    /\ isSubmitted
    /\ pending = <<>>
    /\ toast = "Incorreto"
    /\ isCorrect = "false"

\* a text without its leading and trailing spaces, read from the text itself:
\* the stretch from its first to its last character that is no space
Stripped(s) ==
    LET solid == { i \in 1..Len(s) : ~IsSpace(s[i]) }
    IN IF solid = {} THEN <<>>
       ELSE SubSeq(s, CHOOSE i \in solid : \A j \in solid : i <= j,
                      CHOOSE i \in solid : \A j \in solid : j <= i)

\* the reference rule of the single-value exercise types
SingleValueRule(ex, answer) ==
    IF ex.type = "multiple-choice" THEN answer = ex.correctAnswer
    ELSE IF ex.type = "fill-in-the-blank"
    THEN IF ex.hasOptions /\ ex.options # <<>>
         THEN answer = ex.correctAnswer
         ELSE /\ answer.kind = "string"
              /\ Stripped(ToLowerCase(answer.val))
                     = Stripped(ToLowerCase(ex.correctAnswer.val))
    ELSE ex.type = "coding"

\* C13: the verdict of a multiple-choice, fill-in-the-blank or coding exercise is
\* the reference rule applied to the submitted answer: exact equality with
\* correctAnswer for a chosen option, equality after trimming and case folding
\* for a typed text, always correct for code
C13_SingleValueVerdict ==
    [][ (/\ ValidationDone
         /\ Find(Head(pending).exercise).type
                \in {"multiple-choice", "fill-in-the-blank", "coding"})
          => LET call == Head(pending)
             IN (isCorrect' = "true")
                    <=> SingleValueRule(Find(call.exercise), call.userAnswer) ]_vars

\* C13 witness: fill2 expects ' A'; the typed text 'a' was judged correct
C13_Witness ==
    /\ exercise = "fill2"
    /\ exerciseId = "fill2"
    /\ userAnswer = Str(<< 97 >>)
    /\ isSubmitted
    /\ isCorrect = "true"
    /\ toast = "Correto!"

\* ============================================================ LessonView
\* Lesson content is a sequence of units. A character is its UTF-16 code unit;
\* each literal that the regular expressions of LessonView look for as a whole,
\* and each literal that the parser writes as a whole, is one unit of its own.

\* '<!--'
CommentOpen == 65536
\* '-->'
CommentClose == 65537
\* 'INTERACTIVE_WORD_CHOICE:'
WordChoiceKeyword == 65538
\* 'INTERACTIVE_FILL_IN_BLANK:'
FillBlankKeyword == 65539
\* 'OPTIONS='
OptionsEquals == 65540
\* 'WC PARSE ERROR:'
WcParseError == 65541
\* 'FB PARSE ERROR:'
FbParseError == 65542
\* 'lesson-'
LessonPrefix == 65543
\* '-interaction-'
InteractionInfix == 65544

\* '[', ']', ';', '|', '*', ' ', line feed, '\', 'n'
LeftBracket == 91
RightBracket == 93
Semicolon == 59
Bar == 124
Star == 42
Space == 32
LineFeed == 10
Backslash == 92
LetterN == 110

\* s.charAt(i - 1), 0 where the string has no unit
At(s, i) == IF i \in 1..Len(s) THEN s[i] ELSE 0

\* the least element of a non-empty set of numbers
Min(S) == CHOOSE x \in S : \A y \in S : x <= y
Max(S) == CHOOSE x \in S : \A y \in S : y <= x

\* what '.' does not match without the s flag
IsLineTerminator(c) == c \in {10, 13, 8232, 8233}

\* where \s* stops when it starts at i
SkipSpaces(s, i) ==
    CHOOSE j \in i..(Len(s) + 1) :
        /\ \A k \in i..(j - 1) : IsSpace(s[k])
        /\ (j = Len(s) + 1 \/ ~IsSpace(s[j]))

\* Number.prototype.toString() of a natural number
RECURSIVE ToDecimal(_)
ToDecimal(n) ==
    IF n < 10 THEN << 48 + n >> ELSE ToDecimal(n \div 10) \o << 48 + (n % 10) >>

\* String.prototype.split(sep) for a separator of one unit
RECURSIVE Split(_, _)
Split(s, sep) ==
    LET at == { i \in 1..Len(s) : s[i] = sep }
    IN IF at = {} THEN << s >>
       ELSE << SubSeq(s, 1, Min(at) - 1) >> \o Split(SubSeq(s, Min(at) + 1, Len(s)), sep)

\* ------------------------------------------------------------ the tokens
\* a text token, and the two widgets
TextToken(text) ==
    [type |-> "text", text |-> text, interactionId |-> <<>>, options |-> <<>>,
     correctAnswer |-> <<>>]
Widget(type, interactionId, options, correctAnswer) ==
    [type |-> type, text |-> <<>>, interactionId |-> interactionId,
     options |-> options, correctAnswer |-> correctAnswer]
WidgetTypes == {"InteractiveWordChoice", "InteractiveFillInBlank"}

\* content.replace(generalCommentsRegex, ''), from position i on:
\* /<!--(?!.*?INTERACTIVE_WORD_CHOICE:|.*?INTERACTIVE_FILL_IN_BLANK:).*?-->/gs
\* the lookahead runs, with the s flag, to the end of the content
RECURSIVE replaceGeneralComments(_, _)
replaceGeneralComments(s, i) ==
    IF i > Len(s) THEN <<>>
    ELSE LET lookahead == \E j \in (i + 1)..Len(s) :
                              s[j] \in {WordChoiceKeyword, FillBlankKeyword}
             closes == { j \in (i + 1)..Len(s) : s[j] = CommentClose }
         IN IF s[i] = CommentOpen /\ ~lookahead /\ closes # {}
            THEN replaceGeneralComments(s, Min(closes) + 1)
            ELSE << s[i] >> \o replaceGeneralComments(s, i + 1)

contentWithoutGeneralComments(content) == replaceGeneralComments(content, 1)

\* no match of combinedRegex
NoMatch == [found |-> FALSE, index |-> 0, last |-> 0, kind |-> "", options |-> <<>>]

\* the match of combinedRegex that starts at i, if there is one: index and last
\* are the first and last position of match[0], options is match[2] of a
\* word-choice (kind "wc") and match[4] of a fill-in-blank (kind "fb")
matchAt(s, i) ==
    IF At(s, i) # CommentOpen THEN NoMatch
    ELSE LET k == SkipSpaces(s, i + 1)
             wc == At(s, k) = WordChoiceKeyword
             fb == At(s, k) = FillBlankKeyword
             o == SkipSpaces(s, k + 1)
             opened == IF wc THEN At(s, o) = OptionsEquals /\ At(s, o + 1) = LeftBracket
                       ELSE At(s, o) = LeftBracket
             start == IF wc THEN o + 2 ELSE o + 1
             ends == { e \in start..Len(s) :
                         /\ s[e] = RightBracket
                         /\ \A m \in start..(e - 1) : ~IsLineTerminator(s[m])
                         /\ At(s, SkipSpaces(s, e + 1)) = CommentClose }
         IN IF (wc \/ fb) /\ opened /\ ends # {}
            THEN [found |-> TRUE, index |-> i, last |-> SkipSpaces(s, Min(ends) + 1),
                  kind |-> IF wc THEN "wc" ELSE "fb",
                  options |-> SubSeq(s, start, Min(ends) - 1)]
            ELSE NoMatch

\* combinedRegex.exec(s) with lastIndex = from - 1
exec(s, from) ==
    LET starts == { i \in from..Len(s) : matchAt(s, i).found }
    IN IF starts = {} THEN NoMatch ELSE matchAt(s, Min(starts))

\* an interactionId that leaves the counter out: every directive gets 0
interactionIdNoCounter(lessonId, interactionCounter) ==
    << LessonPrefix >> \o lessonId \o << InteractionInfix >> \o ToDecimal(0)

\* `lesson-${lesson.id}-interaction-${interactionCounter}`
interactionId(lessonId, interactionCounter) ==
    << LessonPrefix >> \o lessonId \o << InteractionInfix >> \o ToDecimal(interactionCounter)

\* rawOptions.map(...) that returns the marked option with its marker
mappedOptionsKeepMarker(optionsString) ==
    LET rawOptions == Split(optionsString, Semicolon)
    IN [i \in 1..Len(rawOptions) |-> Trim(rawOptions[i])]

\* rawOptions.map(...) of the word-choice branch: trimmed, a leading '*' cut off
mappedOptions(optionsString) ==
    LET rawOptions == Split(optionsString, Semicolon)
    IN [i \in 1..Len(rawOptions) |->
           LET trimmedOpt == Trim(rawOptions[i])
           IN IF At(trimmedOpt, 1) = Star THEN Trim(Tail(trimmedOpt)) ELSE trimmedOpt]

\* parsedOptions of the word-choice branch
parsedOptions(optionsString) ==
    SelectSeq(mappedOptions(optionsString), LAMBDA opt : Len(opt) > 0)

\* correctAnswer of the word-choice branch: "" at first, then the text of the
\* last option that starts with '*'
wordChoiceCorrectAnswer(optionsString) ==
    LET rawOptions == Split(optionsString, Semicolon)
        starred == { i \in 1..Len(rawOptions) : At(Trim(rawOptions[i]), 1) = Star }
    IN IF starred = {} THEN <<>> ELSE Trim(Tail(Trim(rawOptions[Max(starred)])))

\* shuffleArray of @/lib/utils returns the array in some order
shuffleArray(array) == Shuffles(array)

\* allOptions put in alphabetical order
allOptionsSorted(optionsString) ==
    LET split == Split(optionsString, Bar)
    IN SortStrings(SelectSeq([i \in 1..Len(split) |-> Trim(split[i])],
                             LAMBDA opt : Len(opt) > 0))

\* allOptions of the fill-in-blank branch
allOptions(optionsString) ==
    LET split == Split(optionsString, Bar)
    IN SelectSeq([i \in 1..Len(split) |-> Trim(split[i])], LAMBDA opt : Len(opt) > 0)

\* `<!-- WC PARSE ERROR: ${match[0]} -->` and `<!-- FB PARSE ERROR: ${match[0]} -->`
parseErrorText(label, raw) ==
    << CommentOpen, Space, label, Space >> \o raw \o << Space, CommentClose >>

\* what one pass of the loop pushes for its match, after the text before it: the
\* sequences of no or one token it may push (a word-choice widget is pushed with
\* its options in one of their orders)
directiveTokens(s, m, id) ==
    LET raw == SubSeq(s, m.index, m.last)
    IN IF m.kind = "wc" /\ m.options # <<>>
       THEN LET correctAnswer == wordChoiceCorrectAnswer(m.options)
            IN IF Len(parsedOptions(m.options)) > 0 /\ correctAnswer # <<>>
               THEN { << Widget("InteractiveWordChoice", id, shuffled, correctAnswer) >> :
                        shuffled \in shuffleArray(parsedOptions(m.options)) }
               ELSE { << TextToken(parseErrorText(WcParseError, raw)) >> }
       ELSE IF m.kind = "fb" /\ m.options # <<>>
       THEN IF Len(allOptions(m.options)) > 0
            THEN { << Widget("InteractiveFillInBlank", id, allOptions(m.options),
                             allOptions(m.options)[1]) >> }
            ELSE { << TextToken(parseErrorText(FbParseError, raw)) >> }
       ELSE { <<>> }

\* the while loop of the parser and the push after it, from position from on
RECURSIVE scan(_, _, _, _)
scan(s, from, interactionCounter, lessonId) ==
    LET match == exec(s, from)
    IN IF ~match.found
       THEN { IF from <= Len(s) THEN << TextToken(SubSeq(s, from, Len(s))) >> ELSE <<>> }
       ELSE LET before == IF match.index > from
                          THEN << TextToken(SubSeq(s, from, match.index - 1)) >>
                          ELSE <<>>
                pushed == directiveTokens(s, match,
                                          interactionId(lessonId, interactionCounter))
                rest == scan(s, match.last + 1, interactionCounter + 1, lessonId)
            IN { before \o tokens \o elements : tokens \in pushed, elements \in rest }

\* parseLessonContentAndCountInteractions: the element lists it may return
parseLessonContentAndCountInteractions(l) ==
    scan(contentWithoutGeneralComments(l.content), 1, 0, l.id)

\* -------------------------------------------------------- paragraph reflow
\* <strong>{match[1]}</strong>
Strong(text) ==
    [type |-> "strong", text |-> text, interactionId |-> <<>>, options |-> <<>>,
     correctAnswer |-> <<>>]

\* the match of boldRegexGlobal, /\*\*(.*?)\*\*/g, that starts at i, if any: last
\* is the position of its last unit, options holds match[1]
boldAt(text, i) ==
    LET ends == { j \in (i + 2)..(Len(text) - 1) :
                    /\ text[j] = Star
                    /\ text[j + 1] = Star
                    /\ \A m \in (i + 2)..(j - 1) : ~IsLineTerminator(text[m]) }
    IN IF At(text, i) = Star /\ At(text, i + 1) = Star /\ ends # {}
       THEN [found |-> TRUE, index |-> i, last |-> Min(ends) + 1, kind |-> "bold",
             options |-> SubSeq(text, i + 2, Min(ends) - 1)]
       ELSE NoMatch

\* the loop of renderTextWithBold and the push after it, from position from on
RECURSIVE boldParts(_, _)
boldParts(text, from) ==
    LET starts == { i \in from..Len(text) : boldAt(text, i).found }
    IN IF starts = {}
       THEN IF from <= Len(text) THEN << TextToken(SubSeq(text, from, Len(text))) >>
            ELSE <<>>
       ELSE LET match == boldAt(text, Min(starts))
            IN (IF match.index > from
                THEN << TextToken(SubSeq(text, from, match.index - 1)) >>
                ELSE <<>>)
               \o << Strong(match.options) >>
               \o boldParts(text, match.last + 1)

renderTextWithBold(text) == boldParts(text, 1)

\* a segment of element.split(/(\\n|\n)/g): a separator or the text between two
Separator == [sep |-> TRUE, text |-> <<>>]
Segment(text) == [sep |-> FALSE, text |-> text]

\* where the split pattern matches at i: the two units '\' 'n', or a line feed
SeparatorLength(text, i) ==
    IF At(text, i) = Backslash /\ At(text, i + 1) = LetterN THEN 2
    ELSE IF At(text, i) = LineFeed THEN 1
    ELSE 0

\* element.split(/(\\n|\n)/g)
RECURSIVE splitSegments(_)
splitSegments(text) ==
    LET at == { i \in 1..Len(text) : SeparatorLength(text, i) > 0 }
    IN IF at = {} THEN << Segment(text) >>
       ELSE << Segment(SubSeq(text, 1, Min(at) - 1)), Separator >>
            \o splitSegments(SubSeq(text, Min(at) + SeparatorLength(text, Min(at)),
                                    Len(text)))

\* finalizeParagraph: [outputParagraphs, currentParagraphChildren] afterwards
finalizeParagraph(state) ==
    IF Len(state.currentParagraphChildren) > 0
    THEN [outputParagraphs |->
              Append(state.outputParagraphs, state.currentParagraphChildren),
          currentParagraphChildren |-> <<>>]
    ELSE state

\* the inner forEach of renderContentWithParagraphs, over the segments of a text
RECURSIVE forEachSegment(_, _)
forEachSegment(textSegments, state) ==
    IF textSegments = <<>> THEN state
    ELSE LET segment == Head(textSegments)
         IN forEachSegment(
                Tail(textSegments),
                IF segment.sep THEN finalizeParagraph(state)
                ELSE IF Trim(segment.text) # <<>>
                THEN [state EXCEPT !.currentParagraphChildren =
                                       @ \o renderTextWithBold(segment.text)]
                ELSE state)

\* the outer forEach of renderContentWithParagraphs
RECURSIVE forEachElement(_, _)
forEachElement(elements, state) ==
    IF elements = <<>> THEN state
    ELSE LET element == Head(elements)
         IN forEachElement(
                Tail(elements),
                IF element.type = "text"
                THEN forEachSegment(splitSegments(element.text), state)
                ELSE [state EXCEPT !.currentParagraphChildren = Append(@, element)])

\* renderContentWithParagraphs without the finalizeParagraph() call after the loop
renderContentWithParagraphsNoLastFlush(elements) ==
    LET final == forEachElement(elements, [outputParagraphs |-> <<>>,
                                           currentParagraphChildren |-> <<>>])
    IN IF Len(final.outputParagraphs) = 0 /\ Len(final.currentParagraphChildren) > 0
       THEN Append(final.outputParagraphs, final.currentParagraphChildren)
       ELSE final.outputParagraphs

\* renderContentWithParagraphs: the paragraphs, each the list of its children
renderContentWithParagraphs(elements) ==
    LET looped == forEachElement(elements, [outputParagraphs |-> <<>>,
                                            currentParagraphChildren |-> <<>>])
        final == finalizeParagraph(looped)
    IN IF Len(final.outputParagraphs) = 0 /\ Len(final.currentParagraphChildren) > 0
       THEN Append(final.outputParagraphs, final.currentParagraphChildren)
       ELSE final.outputParagraphs

\* ------------------------------- paragraph reflow, second revision
\* where the split pattern of the second revision, /(\n|\\n)/g, matches at i: its
\* first alternative is the line feed, its second the two units '\' 'n'
SeparatorLengthSecond(text, i) ==
    IF At(text, i) = LineFeed THEN 1
    ELSE IF At(text, i) = Backslash /\ At(text, i + 1) = LetterN THEN 2
    ELSE 0

\* element.split(/(\n|\\n)/g) of the second revision
RECURSIVE splitSegmentsSecond(_)
splitSegmentsSecond(text) ==
    LET at == { i \in 1..Len(text) : SeparatorLengthSecond(text, i) > 0 }
    IN IF at = {} THEN << Segment(text) >>
       ELSE << Segment(SubSeq(text, 1, Min(at) - 1)), Separator >>
            \o splitSegmentsSecond(
                   SubSeq(text, Min(at) + SeparatorLengthSecond(text, Min(at)), Len(text)))

\* the inner forEach of the second revision (finalizeParagraph and
\* renderTextWithBold read the same in both revisions)
RECURSIVE forEachSegmentSecond(_, _)
forEachSegmentSecond(textSegments, state) ==
    IF textSegments = <<>> THEN state
    ELSE LET segment == Head(textSegments)
         IN forEachSegmentSecond(
                Tail(textSegments),
                IF segment.sep THEN finalizeParagraph(state)
                ELSE IF Trim(segment.text) # <<>>
                THEN [state EXCEPT !.currentParagraphChildren =
                                       @ \o renderTextWithBold(segment.text)]
                ELSE state)

\* the outer forEach of the second revision
RECURSIVE forEachElementSecond(_, _)
forEachElementSecond(elements, state) ==
    IF elements = <<>> THEN state
    ELSE LET element == Head(elements)
         IN forEachElementSecond(
                Tail(elements),
                IF element.type = "text"
                THEN forEachSegmentSecond(splitSegmentsSecond(element.text), state)
                ELSE [state EXCEPT !.currentParagraphChildren = Append(@, element)])

\* the second revision without the finalizeParagraph() call after the loop
renderContentWithParagraphsSecondNoLastFlush(elements) ==
    LET final == forEachElementSecond(elements, [outputParagraphs |-> <<>>,
                                                 currentParagraphChildren |-> <<>>])
    IN IF /\ Len(final.outputParagraphs) = 0
          /\ Len(elements) > 0
          /\ Len(final.currentParagraphChildren) > 0
       THEN Append(final.outputParagraphs, final.currentParagraphChildren)
       ELSE final.outputParagraphs

\* renderContentWithParagraphs of the second revision
renderContentWithParagraphsSecond(elements) ==
    LET looped == forEachElementSecond(elements, [outputParagraphs |-> <<>>,
                                                  currentParagraphChildren |-> <<>>])
        final == finalizeParagraph(looped)
    IN IF /\ Len(final.outputParagraphs) = 0
          /\ Len(elements) > 0
          /\ Len(final.currentParagraphChildren) > 0
       THEN Append(final.outputParagraphs, final.currentParagraphChildren)
       ELSE final.outputParagraphs

\* ------------------------------------------------------------ the lessons
\* a lesson content is made of up to MaxPieces of these pieces
MaxPieces == 3

LessonPieces ==
    << <<>>,
       << 97 >>,
       << Space >>,
       << LineFeed >>,
       << Backslash >>,
       << LetterN >>,
       << Star, Star >>,
       << CommentOpen, LineFeed, 120, Space, CommentClose >>,
       << CommentOpen, Space, WordChoiceKeyword, Space, OptionsEquals, LeftBracket,
          97, Semicolon, Space, Star, 98, RightBracket, Space, CommentClose >>,
       << CommentOpen, WordChoiceKeyword, OptionsEquals, LeftBracket,
          97, Semicolon, 98, RightBracket, CommentClose >>,
       << CommentOpen, WordChoiceKeyword, OptionsEquals, LeftBracket, RightBracket,
          CommentClose >>,
       << CommentOpen, WordChoiceKeyword, OptionsEquals, LeftBracket,
          Space, Star, Semicolon, Space, RightBracket, CommentClose >>,
       << CommentOpen, Space, FillBlankKeyword, Space, LeftBracket,
          Space, 98, Bar, 97, Bar, Space, RightBracket, Space, CommentClose >>,
       << CommentOpen, FillBlankKeyword, LeftBracket, RightBracket, CommentClose >>,
       << CommentOpen, FillBlankKeyword, LeftBracket, Space, Bar, Space, RightBracket,
          CommentClose >> >>

\* the lessons of allMockLessons, counted from 0: lesson n has the id 'm<n>' and
\* as content the pieces that the digits of n name
NumLessons == Len(LessonPieces) ^ MaxPieces

RECURSIVE LessonContentOf(_, _)
LessonContentOf(n, pieces) ==
    IF pieces = 0 THEN <<>>
    ELSE LessonContentOf(n \div Len(LessonPieces), pieces - 1)
           \o LessonPieces[(n % Len(LessonPieces)) + 1]

LessonContent(n) == LessonContentOf(n, MaxPieces)

LessonAt(n) == [id |-> << 109 >> \o ToDecimal(n), content |-> LessonContent(n)]

\* the number a decimal numeral stands for
RECURSIVE FromDecimal(_)
FromDecimal(digits) ==
    IF digits = <<>> THEN 0
    ELSE 10 * FromDecimal(SubSeq(digits, 1, Len(digits) - 1)) + (digits[Len(digits)] - 48)

\* allMockLessons.findIndex(l => l.id === lesson.id)
findIndex(id) == FromDecimal(Tail(id))

\* the lessons the page of a lesson leads to: the lesson itself, given anew, and
\* its neighbours in allMockLessons
LinkedLessons(l) ==
    { LessonAt(n) : n \in { findIndex(l.id) - 1, findIndex(l.id), findIndex(l.id) + 1 }
                           \cap (0..(NumLessons - 1)) }

\* ------------------------------------------------------------ localStorage
\* `${LOCAL_STORAGE_KEYS.GUEST_COMPLETED_LESSONS}_interactions_`, one unit
StorageKeyPrefix == 65545
Quote == 34
Comma == 44
LeftBrace == 123
RightBrace == 125

currentLessonInteractionsKey(lessonId) == << StorageKeyPrefix >> \o lessonId

\* localStorage.getItem(key): a string, or null
NoItem == [null |-> TRUE, text |-> <<>>]
getItem(storage, key) ==
    IF key \in DOMAIN storage THEN [null |-> FALSE, text |-> storage[key]] ELSE NoItem

\* JSON.stringify of an array of strings that need no escape
RECURSIVE Joined(_)
Joined(array) ==
    IF array = <<>> THEN <<>>
    ELSE << Quote >> \o Head(array) \o << Quote >>
           \o (IF Len(array) > 1 THEN << Comma >> \o Joined(Tail(array)) ELSE <<>>)

JSONStringify(array) == << LeftBracket >> \o Joined(array) \o << RightBracket >>

\* what JSON.parse gives: it throws, or returns an array of strings, or another value
JSONThrows == [threw |-> TRUE, isArray |-> FALSE, isString |-> FALSE, items |-> <<>>]
JSONOther == [threw |-> FALSE, isArray |-> FALSE, isString |-> FALSE, items |-> <<>>]
JSONString(chars) == [threw |-> FALSE, isArray |-> FALSE, isString |-> TRUE, items |-> chars]
JSONArray(items) == [threw |-> FALSE, isArray |-> TRUE, isString |-> FALSE, items |-> items]

\* the string literal of t that opens at place i: last is the place of its closing
\* quote, 0 when it is not one (escapes are not read: '\' makes it none)
StringLiteral(t, i) ==
    LET closes == { j \in (i + 1)..Len(t) : t[j] = Quote }
    IN IF At(t, i) = Quote /\ closes # {}
          /\ \A k \in (i + 1)..(Min(closes) - 1) : t[k] >= 32 /\ t[k] # Backslash
       THEN [last |-> Min(closes), chars |-> SubSeq(t, i + 1, Min(closes) - 1)]
       ELSE [last |-> 0, chars |-> <<>>]

\* the elements of an array from place i on, where an element must start
RECURSIVE parseElements(_, _)
parseElements(t, i) ==
    LET literal == StringLiteral(t, SkipSpaces(t, i))
        after == SkipSpaces(t, literal.last + 1)
    IN IF literal.last = 0 THEN JSONThrows
       ELSE IF At(t, after) = RightBracket
       THEN IF SkipSpaces(t, after + 1) > Len(t) THEN JSONArray(<< literal.chars >>)
            ELSE JSONThrows
       ELSE IF At(t, after) = Comma
       THEN LET rest == parseElements(t, after + 1)
            IN IF rest.threw THEN JSONThrows
               ELSE JSONArray(<< literal.chars >> \o rest.items)
       ELSE JSONThrows

\* JSON.parse(text), for the texts that are an array of strings, a string, {}
\* or null; any other text here is one it throws on
JSONParse(text) ==
    LET first == SkipSpaces(text, 1)
        t == Trim(text)
    IN IF At(text, first) = LeftBracket
       THEN IF At(text, SkipSpaces(text, first + 1)) = RightBracket
            THEN IF SkipSpaces(text, SkipSpaces(text, first + 1) + 1) > Len(text)
                 THEN JSONArray(<<>>)
                 ELSE JSONThrows
            ELSE parseElements(text, first + 1)
       ELSE IF At(text, first) = Quote
       THEN IF StringLiteral(text, first).last # 0
               /\ SkipSpaces(text, StringLiteral(text, first).last + 1) > Len(text)
            THEN JSONString(StringLiteral(text, first).chars)
            ELSE JSONThrows
       ELSE IF t \in { << LeftBrace, RightBrace >>, << 110, 117, 108, 108 >> }
       THEN JSONOther
       ELSE JSONThrows

\* new Set(iterable): the members in the order they first come
RECURSIVE newSet(_)
newSet(array) ==
    IF array = <<>> THEN <<>>
    ELSE LET before == newSet(SubSeq(array, 1, Len(array) - 1))
             last == array[Len(array)]
         IN IF last \in Range(before) THEN before ELSE Append(before, last)

\* set.add(value)
add(set, value) == IF value \in Range(set) THEN set ELSE Append(set, value)

\* -------------------------------------------------------------- rendering
\* a render of LessonView with a lesson: the parser runs (useMemo) and the
\* paragraphs are made of its tokens
Render(l) ==
    /\ lesson' = l
    /\ \E elements \in parseLessonContentAndCountInteractions(l) :
           /\ processedContentElements' = elements
           /\ paragraphs' = renderContentWithParagraphs(elements)

\* the useEffect on [processedContentElements]: the count it sets
count(elements) ==
    Cardinality({ i \in 1..Len(elements) : elements[i].type \in WidgetTypes })

\* the useEffect on [lesson] without the Array.isArray test
lessonEffectNoArrayTest(storage, l) ==
    LET storedInteractions == getItem(storage, currentLessonInteractionsKey(l.id))
        parsedInteractions == JSONParse(storedInteractions.text)
        currentIndex == findIndex(l.id)
    IN [completedInteractionIds |->
            IF storedInteractions.null \/ storedInteractions.text = <<>> THEN <<>>
            ELSE IF parsedInteractions.threw THEN <<>>
            ELSE IF parsedInteractions.isArray THEN newSet(parsedInteractions.items)
            ELSE IF parsedInteractions.isString
            THEN newSet([k \in 1..Len(parsedInteractions.items) |->
                            << parsedInteractions.items[k] >>])
            ELSE <<>>,
        isMarkingComplete |-> FALSE,
        prevLesson |-> IF currentIndex > 0 THEN LessonAt(currentIndex - 1) ELSE NoLesson,
        nextLesson |-> IF currentIndex < NumLessons - 1 THEN LessonAt(currentIndex + 1)
                       ELSE NoLesson,
        thrown |-> FALSE]

\* the useEffect on [lesson]: the state it leaves. The exception of JSON.parse is
\* caught, so none leaves the effect
lessonEffect(storage, l) ==
    LET storedInteractions == getItem(storage, currentLessonInteractionsKey(l.id))
        parsedInteractions == JSONParse(storedInteractions.text)
        currentIndex == findIndex(l.id)
    IN [completedInteractionIds |->
            IF storedInteractions.null \/ storedInteractions.text = <<>> THEN <<>>
            ELSE IF parsedInteractions.threw THEN <<>>
            ELSE IF parsedInteractions.isArray THEN newSet(parsedInteractions.items)
            ELSE <<>>,
        isMarkingComplete |-> FALSE,
        prevLesson |-> IF currentIndex > 0 THEN LessonAt(currentIndex - 1) ELSE NoLesson,
        nextLesson |-> IF currentIndex < NumLessons - 1 THEN LessonAt(currentIndex + 1)
                       ELSE NoLesson,
        thrown |-> FALSE]

\* LessonView has rendered lesson l and the effects of that render have run
Mounted(l) ==
    /\ lesson = l
    /\ \E elements \in parseLessonContentAndCountInteractions(l) :
           /\ processedContentElements = elements
           /\ paragraphs = renderContentWithParagraphs(elements)
           /\ totalInteractiveElements = count(elements)
    /\ LET after == lessonEffect(localStorage, l)
       IN /\ completedInteractionIds = after.completedInteractionIds
          /\ isMarkingComplete = after.isMarkingComplete
          /\ prevLesson = after.prevLesson
          /\ nextLesson = after.nextLesson
          /\ thrown = after.thrown

\* the lesson prop becomes l: the render, and the two effects after it
Mount(l) ==
    /\ Render(l)
    /\ totalInteractiveElements' = count(processedContentElements')
    /\ LET after == lessonEffect(localStorage, l)
       IN /\ completedInteractionIds' = after.completedInteractionIds
          /\ isMarkingComplete' = after.isMarkingComplete
          /\ prevLesson' = after.prevLesson
          /\ nextLesson' = after.nextLesson
          /\ thrown' = after.thrown
    /\ lessonToast' = ""
    /\ UNCHANGED << localStorage, authVars, inFlight >>

\* LessonView is mounted with one of the lessons, nothing stored, nobody signed in
InitLesson ==
    /\ ExerciseViewInit
    /\ localStorage = EmptyMap
    /\ authLoading = FALSE
    /\ userProfile = NoProfile
    /\ inFlight = <<>>
    /\ lessonToast = ""
    /\ \E n \in 0..(NumLessons - 1) : Mounted(LessonAt(n))
    /\ boldText = <<>>
    /\ parts = <<>>

\* the lesson prop changes, by one of the links of the page
LessonChange ==
    /\ lesson # NoLesson
    /\ \E l \in LinkedLessons(lesson) : Mount(l)
    /\ UNCHANGED << exerciseVars, boldVars >>

NextLesson == LessonChange
SpecLesson == InitLesson /\ [][NextLesson]_vars

\* ------------------------------------------------- the session of a lesson
\* at most MaxInFlight calls of markLessonCompletedAction are unresolved at a time
MaxInFlight == 2

\* the index in allMockLessons of the lesson made of the pieces at these places
\* of LessonPieces
RECURSIVE IndexOfPieces(_)
IndexOfPieces(places) ==
    IF places = <<>> THEN 0
    ELSE IndexOfPieces(SubSeq(places, 1, Len(places) - 1)) * Len(LessonPieces)
           + (places[Len(places)] - 1)

\* the piece of LessonPieces with this content
PlaceOf(piece) == CHOOSE k \in 1..Len(LessonPieces) : LessonPieces[k] = piece

\* the lessons of a session: one without directive ('a', a line feed, 'a'), one
\* with a fill-blank widget, and one whose three directives give a word-choice
\* widget, a placeholder and a fill-blank widget
SessionLessons ==
    LET text == PlaceOf(<< 97 >>)
        feed == PlaceOf(<< LineFeed >>)
        wordChoice == PlaceOf(<< CommentOpen, Space, WordChoiceKeyword, Space,
                                 OptionsEquals, LeftBracket, 97, Semicolon, Space,
                                 Star, 98, RightBracket, Space, CommentClose >>)
        noAnswer == PlaceOf(<< CommentOpen, WordChoiceKeyword, OptionsEquals,
                               LeftBracket, 97, Semicolon, 98, RightBracket,
                               CommentClose >>)
        fillBlank == PlaceOf(<< CommentOpen, Space, FillBlankKeyword, Space,
                                LeftBracket, Space, 98, Bar, 97, Bar, Space,
                                RightBracket, Space, CommentClose >>)
    IN { LessonAt(IndexOfPieces(<< text, feed, text >>)),
         LessonAt(IndexOfPieces(<< text, fillBlank, text >>)),
         LessonAt(IndexOfPieces(<< wordChoice, noAnswer, fillBlank >>)) }

\* the interaction ids of the widgets of a lesson
interactionIds(l) ==
    LET elements == CHOOSE elements \in parseLessonContentAndCountInteractions(l) : TRUE
    IN { elements[i].interactionId :
           i \in { j \in 1..Len(elements) : elements[j].type \in WidgetTypes } }

\* the sequences without repetition of members of a set
RECURSIVE Orderings(_)
Orderings(S) ==
    { <<>> } \cup UNION { { << x >> \o rest : rest \in Orderings(S \ {x}) } : x \in S }

\* what the key of a lesson may hold when the page opens: what an earlier session
\* of the lesson wrote, or a text that is no array of ids: '', '[', '{}', 'null',
\* '"x"'
StoredTexts(l) ==
    { JSONStringify(ids) : ids \in Orderings(interactionIds(l)) }
      \cup { <<>>, << LeftBracket >>, << LeftBrace, RightBrace >>,
             << 110, 117, 108, 108 >>, << Quote, 120, Quote >> }

\* the page opens on a lesson while useAuth is loading
InitSession ==
    /\ ExerciseViewInit
    /\ localStorage \in
         { EmptyMap } \cup
         UNION { { MapSet(EmptyMap, currentLessonInteractionsKey(l.id), text) :
                     text \in StoredTexts(l) } : l \in SessionLessons }
    /\ authLoading = TRUE
    /\ userProfile = NoProfile
    /\ inFlight = <<>>
    /\ lessonToast = ""
    /\ \E l \in SessionLessons : Mounted(l)
    /\ boldText = <<>>
    /\ parts = <<>>

\* the lesson prop changes to a lesson of the session, or to the same one anew
Navigate ==
    /\ \E l \in SessionLessons : Mount(l)
    /\ UNCHANGED << exerciseVars, boldVars >>

\* useAuth has loaded: somebody is signed in, with no lesson completed, or nobody
AuthLoaded ==
    /\ authLoading
    /\ authLoading' = FALSE
    /\ userProfile' \in { NoProfile, [present |-> TRUE, completedLessons |-> {}] }
    /\ lessonToast' = ""
    /\ UNCHANGED << exerciseVars, boldVars, contentVars, progressVars, inFlight >>

\* handleInteractionCorrect that writes the id alone
handleInteractionCorrectIdOnly(id) ==
    LET newSetOfIds == add(completedInteractionIds, id)
    IN /\ completedInteractionIds' = newSetOfIds
       /\ localStorage' = MapSet(localStorage, currentLessonInteractionsKey(lesson.id),
                                 JSONStringify(<< id >>))

\* handleInteractionCorrect
handleInteractionCorrect(id) ==
    LET newSetOfIds == add(completedInteractionIds, id)
    IN /\ completedInteractionIds' = newSetOfIds
       /\ localStorage' = MapSet(localStorage, currentLessonInteractionsKey(lesson.id),
                                 JSONStringify(newSetOfIds))

\* a widget of the page is answered correctly and calls onCorrect with its id
InteractionCorrect ==
    /\ lesson # NoLesson
    /\ ~authLoading
    /\ \E i \in 1..Len(processedContentElements) :
           /\ processedContentElements[i].type \in WidgetTypes
           /\ handleInteractionCorrect(processedContentElements[i].interactionId)
    /\ lessonToast' = ""
    /\ UNCHANGED << exerciseVars, boldVars, contentVars, isMarkingComplete, prevLesson,
                    nextLesson, thrown, authVars, inFlight >>

allInteractionsCompleted ==
    totalInteractiveElements = 0 \/ Len(completedInteractionIds) = totalInteractiveElements

isCompleted ==
    IF authLoading THEN FALSE
    ELSE IF userProfile.present /\ lesson # NoLesson
    THEN lesson.id \in userProfile.completedLessons
    ELSE FALSE

\* the disabled attribute of the button
MarkDisabled ==
    isCompleted \/ isMarkingComplete
      \/ (~allInteractionsCompleted /\ totalInteractiveElements > 0)

\* handleMarkAsCompleted, up to its await
handleMarkAsCompleted ==
    IF isCompleted \/ isMarkingComplete \/ ~allInteractionsCompleted \/ lesson = NoLesson
         \/ ~userProfile.present
    THEN UNCHANGED << isMarkingComplete, inFlight >>
    ELSE /\ isMarkingComplete' = TRUE
         /\ inFlight' = Append(inFlight, [userProfile |-> userProfile,
                                          lessonId |-> lesson.id])

\* a click on the button
MarkAsCompleted ==
    /\ lesson # NoLesson
    /\ ~authLoading
    /\ ~MarkDisabled
    /\ Len(inFlight) < MaxInFlight
    /\ handleMarkAsCompleted
    /\ lessonToast' = ""
    /\ UNCHANGED << exerciseVars, boldVars, contentVars, completedInteractionIds,
                    prevLesson, nextLesson, localStorage, thrown, authVars >>

\* result.updatedProfile of a call that succeeds: the lesson is among the
\* completed ones
markLessonCompletedAction(profile, lessonId) ==
    [present |-> TRUE, completedLessons |-> profile.completedLessons \cup { lessonId }]

\* a call of markLessonCompletedAction resolves and handleMarkAsCompleted goes on
\* after its await
CompletionDone ==
    /\ \E i \in 1..Len(inFlight), success \in BOOLEAN :
           /\ inFlight' = SubSeq(inFlight, 1, i - 1) \o SubSeq(inFlight, i + 1, Len(inFlight))
           /\ IF success
              THEN /\ userProfile' = markLessonCompletedAction(inFlight[i].userProfile,
                                                               inFlight[i].lessonId)
                   /\ lessonToast' = "Licao Concluida!"
              ELSE /\ UNCHANGED userProfile
                   /\ lessonToast' = "Erro"
    /\ isMarkingComplete' = FALSE
    /\ UNCHANGED << exerciseVars, boldVars, contentVars, completedInteractionIds,
                    prevLesson, nextLesson, localStorage, thrown, authLoading >>

NextSession ==
    \/ Navigate
    \/ AuthLoaded
    \/ InteractionCorrect
    \/ MarkAsCompleted
    \/ CompletionDone
SpecSession == InitSession /\ [][NextSession]_vars

\* ------------------------------------------- renderTextWithBold on its own
\* the texts have up to MaxTextLen units
MaxTextLen == 7

CarriageReturn == 13

\* the units of the texts: a letter, a space, the star of the bold mark and a
\* line terminator that split(/(\\n|\n)/g) leaves in its segments
TextUnits == { 97, Space, Star, CarriageReturn }

\* 'a **b** c'
ExampleText == << 97, Space, Star, Star, 98, Star, Star, Space, 99 >>

\* renderTextWithBold(text, baseKey) is called
Bold(text) ==
    /\ boldText' = text
    /\ parts' = renderTextWithBold(text)

InitBold ==
    /\ ExerciseViewInit
    /\ lesson = NoLesson
    /\ processedContentElements = <<>>
    /\ paragraphs = <<>>
    /\ totalInteractiveElements = 0
    /\ NoSession
    /\ boldText \in { <<>>, ExampleText }
    /\ parts = renderTextWithBold(boldText)

\* the next call has the text of the last one and a unit more
LongerText ==
    /\ Len(boldText) < MaxTextLen
    /\ \E unit \in TextUnits : Bold(Append(boldText, unit))
    /\ UNCHANGED << exerciseVars, lessonVars >>

\* the next call has the text of the last one without its first unit
ShorterText ==
    /\ boldText # <<>>
    /\ Bold(Tail(boldText))
    /\ UNCHANGED << exerciseVars, lessonVars >>

NextBold ==
    \/ LongerText
    \/ ShorterText
SpecBold == InitBold /\ [][NextBold]_vars

\* ------------------------------------------------- properties of the parser
\* the directives of a comment-stripped content, in the order of their places
RECURSIVE DirectivesFrom(_, _)
DirectivesFrom(s, from) ==
    LET match == exec(s, from)
    IN IF ~match.found THEN <<>>
       ELSE << match >> \o DirectivesFrom(s, match.last + 1)

Directives(l) == DirectivesFrom(contentWithoutGeneralComments(l.content), 1)

\* the raw text of a directive of lesson l
RawText(l, m) == SubSeq(contentWithoutGeneralComments(l.content), m.index, m.last)

\* the declared entries of a directive, trimmed
Entries(m) ==
    LET split == Split(m.options, IF m.kind = "wc" THEN Semicolon ELSE Bar)
    IN [i \in 1..Len(split) |-> Trim(split[i])]

\* an entry without its * marker
Unmarked(entry) == IF At(entry, 1) = Star THEN Trim(Tail(entry)) ELSE entry

\* a word-choice directive is well formed when an option survives and an option
\* carries the * marker, a fill-in-blank directive when an option survives
WellFormed(m) ==
    LET entries == Entries(m)
    IN IF m.kind = "wc"
       THEN /\ \E i \in 1..Len(entries) : Unmarked(entries[i]) # <<>>
            /\ \E i \in 1..Len(entries) : At(entries[i], 1) = Star
       ELSE \E i \in 1..Len(entries) : entries[i] # <<>>

\* the tokens of a kind, in their order
WidgetTokens(elements) == SelectSeq(elements, LAMBDA el : el.type \in WidgetTypes)
Placeholders(elements) ==
    SelectSeq(elements,
              LAMBDA el : /\ el.type = "text"
                          /\ \E i \in 1..Len(el.text) :
                                 el.text[i] \in {WcParseError, FbParseError})

\* text holds part as a run of consecutive units
Contains(text, part) ==
    \E i \in 0..(Len(text) - Len(part)) : SubSeq(text, i + 1, i + Len(part)) = part

\* C14: the parser emits one widget token for each well-formed directive of the
\* content and one parse-error placeholder for each malformed one, the
\* placeholders holding, in order, the raw text of the malformed directives
C14_WidgetsAndPlaceholders ==
    lesson # NoLesson
      => LET directives == Directives(lesson)
             malformed == SelectSeq(directives, LAMBDA m : ~WellFormed(m))
             placeholders == Placeholders(processedContentElements)
         IN /\ Len(WidgetTokens(processedContentElements))
                   = Len(directives) - Len(malformed)
            /\ Len(placeholders) = Len(malformed)
            /\ \A j \in 1..Len(malformed) :
                   Contains(placeholders[j].text, RawText(lesson, malformed[j]))

\* the id lesson-<lessonId>-interaction-<k>
WidgetId(lessonId, k) ==
    << LessonPrefix >> \o lessonId \o << InteractionInfix >> \o ToDecimal(k)

\* the ordinal an id ends with: the number after '-interaction-'
OrdinalOf(id) ==
    LET infix == Max({ i \in 1..Len(id) : id[i] = InteractionInfix })
    IN FromDecimal(SubSeq(id, infix + 1, Len(id)))

\* the options a directive declares: its entries without marker, the empty ones
\* left out
DeclaredOptions(m) ==
    SelectSeq([i \in 1..Len(Entries(m)) |->
                  IF m.kind = "wc" THEN Unmarked(Entries(m)[i]) ELSE Entries(m)[i]],
              LAMBDA opt : opt # <<>>)

\* widget is the widget of directive m: of its type, with its options
WidgetOf(widget, m) ==
    /\ widget.type = (IF m.kind = "wc" THEN "InteractiveWordChoice"
                      ELSE "InteractiveFillInBlank")
    /\ widget.options \in Shuffles(DeclaredOptions(m))

\* the ids of the widgets of a token list, in order
WidgetIds(elements) ==
    [j \in 1..Len(WidgetTokens(elements)) |-> WidgetTokens(elements)[j].interactionId]

\* C15: every widget carries the id lesson-<lessonId>-interaction-<k> with k the
\* place, counted from 0, of its directive among all directives of the content;
\* the ordinals grow strictly along the token list, so no two widgets share an
\* id; a new parse of the same lesson gives the same ids
C15_OrdinalIds ==
    /\ [](lesson # NoLesson
            => LET widgets == WidgetTokens(processedContentElements)
                   directives == Directives(lesson)
               IN /\ \A j \in 1..Len(widgets) :
                         LET k == OrdinalOf(widgets[j].interactionId)
                         IN /\ widgets[j].interactionId = WidgetId(lesson.id, k)
                            /\ k + 1 \in 1..Len(directives)
                            /\ WidgetOf(widgets[j], directives[k + 1])
                  /\ \A i, j \in 1..Len(widgets) :
                         i < j => OrdinalOf(widgets[i].interactionId)
                                    < OrdinalOf(widgets[j].interactionId))
    /\ [][ lesson' = lesson
             => WidgetIds(processedContentElements')
                  = WidgetIds(processedContentElements) ]_vars

\* C15 witness: the content is a malformed fill-in-blank directive, a word-choice
\* directive and a fill-in-blank directive: the two widgets carry the ordinals 1
\* and 2, the placeholder has used up 0
C15_Witness ==
    /\ lesson # NoLesson
    /\ Len(Directives(lesson)) = 3
    /\ Len(processedContentElements) = 3
    /\ Placeholders(processedContentElements) = << processedContentElements[1] >>
    /\ processedContentElements[2].type = "InteractiveWordChoice"
    /\ processedContentElements[2].interactionId = WidgetId(lesson.id, 1)
    /\ processedContentElements[3].type = "InteractiveFillInBlank"
    /\ processedContentElements[3].interactionId = WidgetId(lesson.id, 2)

\* a content without its comments that are no directive: each stretch from a
\* '<!--' that starts no directive to the next '-->' is left out
RECURSIVE WithoutPlainComments(_, _)
WithoutPlainComments(s, i) ==
    IF i > Len(s) THEN <<>>
    ELSE LET match == matchAt(s, i)
             closes == { j \in (i + 1)..Len(s) : s[j] = CommentClose }
         IN IF match.found
            THEN SubSeq(s, i, match.last) \o WithoutPlainComments(s, match.last + 1)
            ELSE IF s[i] = CommentOpen /\ closes # {}
            THEN WithoutPlainComments(s, Min(closes) + 1)
            ELSE << s[i] >> \o WithoutPlainComments(s, i + 1)

\* C16: the tokens are those of the content without its comments that are no
\* directive, wherever such a comment stands: no token holds text of such a
\* comment, and every directive has the token it has without the comments
C16_PlainCommentsRemoved ==
    lesson # NoLesson
      => processedContentElements
           \in scan(WithoutPlainComments(lesson.content, 1), 1, 0, lesson.id)

\* the directive a widget was made of: the one at the place its ordinal names
DirectiveOf(widget) == Directives(lesson)[OrdinalOf(widget.interactionId) + 1]

\* C17: the options a word-choice widget presents are a permutation of the
\* declared options, trimmed, without marker and without the empty ones, and the
\* widget's correct answer is one of the options it presents
C17_WordChoiceAnswerPresented ==
    lesson # NoLesson
      => \A i \in 1..Len(processedContentElements) :
             LET widget == processedContentElements[i]
             IN widget.type = "InteractiveWordChoice"
                  => /\ widget.options \in Shuffles(DeclaredOptions(DirectiveOf(widget)))
                     /\ \E j \in 1..Len(widget.options) :
                            widget.options[j] = widget.correctAnswer

\* C17 witness: the directive declares 'a' and '*b'; the widget presents b before
\* a, with b as the correct answer
C17_Witness ==
    /\ lesson # NoLesson
    /\ Len(processedContentElements) = 1
    /\ processedContentElements[1].type = "InteractiveWordChoice"
    /\ Entries(DirectiveOf(processedContentElements[1])) = << << 97 >>, << Star, 98 >> >>
    /\ processedContentElements[1].options = << << 98 >>, << 97 >> >>
    /\ processedContentElements[1].correctAnswer = << 98 >>

\* C18: the options of a fill-in-blank widget are the declared entries, trimmed
\* and without the empty ones, in their declared order, and its correct answer
\* is the first of them
C18_FillBlankFirstEntry ==
    lesson # NoLesson
      => \A i \in 1..Len(processedContentElements) :
             LET widget == processedContentElements[i]
             IN widget.type = "InteractiveFillInBlank"
                  => /\ widget.options = DeclaredOptions(DirectiveOf(widget))
                     /\ widget.correctAnswer = DeclaredOptions(DirectiveOf(widget))[1]

\* C18 witness: the directive declares ' b', 'a' and ' '; the widget has the
\* options b, a and the correct answer b
C18_Witness ==
    /\ lesson # NoLesson
    /\ Len(processedContentElements) = 1
    /\ processedContentElements[1].type = "InteractiveFillInBlank"
    /\ Len(Entries(DirectiveOf(processedContentElements[1]))) = 3
    /\ processedContentElements[1].options = << << 98 >>, << 97 >> >>
    /\ processedContentElements[1].correctAnswer = << 98 >>

\* a token is a parse-error placeholder
IsPlaceholder(el) ==
    /\ el.type = "text"
    /\ \E i \in 1..Len(el.text) : el.text[i] \in {WcParseError, FbParseError}

\* the stretch of content a token stands for: a text run itself, the raw text
\* of its directive for a widget, the raw text it quotes for a placeholder
Restored(el) ==
    IF el.type \in WidgetTypes THEN RawText(lesson, DirectiveOf(el))
    ELSE IF IsPlaceholder(el) THEN SubSeq(el.text, 5, Len(el.text) - 2)
    ELSE el.text

RECURSIVE RestoredAll(_)
RestoredAll(elements) ==
    IF elements = <<>> THEN <<>>
    ELSE Restored(Head(elements)) \o RestoredAll(Tail(elements))

\* C19: every directive of the comment-stripped content has its token, and the
\* text tokens, with the raw text of each directive put back where its token
\* stands, make up the comment-stripped content, nothing lost or out of place
C19_TextPreserved ==
    lesson # NoLesson
      => /\ Len(SelectSeq(processedContentElements,
                          LAMBDA el : el.type \in WidgetTypes \/ IsPlaceholder(el)))
               = Len(Directives(lesson))
         /\ RestoredAll(processedContentElements)
               = contentWithoutGeneralComments(lesson.content)

\* ------------------------------------------------- properties of the reflow
\* the members of a set of numbers, in ascending order
RECURSIVE Ascending(_)
Ascending(S) == IF S = {} THEN <<>> ELSE << Min(S) >> \o Ascending(S \ {Min(S)})

\* the concatenation of a sequence of sequences
RECURSIVE Flatten(_)
Flatten(seqs) == IF seqs = <<>> THEN <<>> ELSE Head(seqs) \o Flatten(Tail(seqs))

\* the places of a text that belong to a separator: a line feed, or a '\'
\* with the 'n' after it
SeparatorStarts(text) ==
    { i \in 1..Len(text) :
        text[i] = LineFeed \/ (text[i] = Backslash /\ At(text, i + 1) = LetterN) }
InSeparator(text, i) ==
    i \in SeparatorStarts(text) \/ (i - 1 \in SeparatorStarts(text) /\ text[i - 1] = Backslash)

\* the fragment of a text that starts at place a: up to the next separator
FragmentAt(text, a) ==
    SubSeq(text, a, Max({ b \in a..Len(text) : \A k \in a..b : ~InSeparator(text, k) }))

\* the items of a token, in order: "break" for a separator, otherwise the
\* children a non-blank fragment or a widget gives its paragraph
ItemsOfToken(el) ==
    IF el.type # "text" THEN << [break |-> FALSE, children |-> << el >>] >>
    ELSE LET fragmentStarts ==
                 { a \in 1..Len(el.text) :
                     /\ ~InSeparator(el.text, a)
                     /\ (a = 1 \/ InSeparator(el.text, a - 1))
                     /\ Trim(FragmentAt(el.text, a)) # <<>> }
             places == Ascending(SeparatorStarts(el.text) \cup fragmentStarts)
         IN [k \in 1..Len(places) |->
                IF places[k] \in fragmentStarts
                THEN [break |-> FALSE,
                      children |-> renderTextWithBold(FragmentAt(el.text, places[k]))]
                ELSE [break |-> TRUE, children |-> <<>>]]

\* the paragraphs a token list must give: one for each longest stretch of
\* items without a break, with the children of its items
ExpectedParagraphs(elements) ==
    LET items == Flatten([i \in 1..Len(elements) |-> ItemsOfToken(elements[i])])
        firsts == { a \in 1..Len(items) :
                      ~items[a].break /\ (a = 1 \/ items[a - 1].break) }
        lastOf(a) == Max({ b \in a..Len(items) : \A k \in a..b : ~items[k].break })
        starts == Ascending(firsts)
    IN [p \in 1..Len(starts) |->
           Flatten([k \in 1..(lastOf(starts[p]) - starts[p] + 1) |->
                       items[starts[p] + k - 1].children])]

\* C20: the paragraphs are the stretches of content between the separators:
\* every non-blank fragment and every widget is a child of exactly one paragraph,
\* in input order, a paragraph ends at each separator that follows content and
\* at the end of the input, and no paragraph is empty
C20_ReflowKeepsContent ==
    lesson # NoLesson
      => /\ paragraphs = ExpectedParagraphs(processedContentElements)
         /\ \A p \in 1..Len(paragraphs) : paragraphs[p] # <<>>

\* C20 witness: a widget, a separator and the text 'a': the widget is the first
\* paragraph, the trailing text the second
C20_Witness ==
    /\ lesson # NoLesson
    /\ Len(processedContentElements) = 2
    /\ processedContentElements[1].type \in WidgetTypes
    /\ processedContentElements[2] = TextToken(<< LineFeed, 97 >>)
    /\ paragraphs = << << processedContentElements[1] >>, << TextToken(<< 97 >>) >> >>

\* ------------------------------------------ properties of the bold spans
\* the text has the bold mark at place i
MarkAt(text, i) == At(text, i) = Star /\ At(text, i + 1) = Star

\* the first **x** span from place from on: [open, close] are the places of its
\* two marks, the closing mark being the nearest one after the opening mark
\* (close = 0: there is no span)
FirstSpan(text, from) ==
    LET opens == { i \in from..Len(text) :
                     MarkAt(text, i) /\ \E j \in (i + 2)..Len(text) : MarkAt(text, j) }
    IN IF opens = {} THEN [open |-> 0, close |-> 0]
       ELSE [open |-> Min(opens),
             close |-> Min({ j \in (Min(opens) + 2)..Len(text) : MarkAt(text, j) })]

\* the runs of a text: the spans as bold runs of what they enclose, and what
\* lies before, between and after them as plain runs, none of them empty
RECURSIVE Runs(_, _)
Runs(text, from) ==
    LET span == FirstSpan(text, from)
        plain(a, b) == IF a <= b THEN << TextToken(SubSeq(text, a, b)) >> ELSE <<>>
    IN IF span.close = 0 THEN plain(from, Len(text))
       ELSE plain(from, span.open - 1)
              \o << Strong(SubSeq(text, span.open + 2, span.close - 1)) >>
              \o Runs(text, span.close + 2)

\* C21: the parts of a text are its runs: each **x** span is a bold run of x,
\* the text around the spans is plain, no plain run is empty, an unmatched
\* mark stays plain; 'a **b** c' gives 'a ', bold 'b', ' c'
C21_BoldRuns ==
    /\ parts = Runs(boldText, 1)
    /\ \A k \in 1..Len(parts) : parts[k].type = "text" => parts[k].text # <<>>
    /\ boldText = ExampleText
         => parts = << TextToken(<< 97, Space >>), Strong(<< 98 >>),
                       TextToken(<< Space, 99 >>) >>

\* ------------------------------------- properties of the lesson's session
\* what the key of the lesson on the page holds, parsed
StoredUnderLessonKey(storage) ==
    JSONParse(getItem(storage, currentLessonInteractionsKey(lesson.id)).text)

\* the step is a correct interaction that changes what is stored
WritesStorage == localStorage' # localStorage

\* C22: while the lesson stays the same the completed set only grows; after a
\* correct interaction the array stored under the lesson's key has exactly the
\* ids of the set, and no other key has changed; a mount of the same lesson
\* (no interaction in the step) leaves the set as it was
C22_CompletedSetPersisted ==
    [][/\ lesson'.id = lesson.id
            => Range(completedInteractionIds) \subseteq Range(completedInteractionIds')
       /\ WritesStorage
            => /\ lesson' = lesson
               /\ StoredUnderLessonKey(localStorage').isArray
               /\ Range(StoredUnderLessonKey(localStorage').items)
                    = Range(completedInteractionIds')
               /\ \A key \in DOMAIN localStorage' :
                      key # currentLessonInteractionsKey(lesson.id)
                        => key \in DOMAIN localStorage
                           /\ localStorage'[key] = localStorage[key]
       /\ (lesson'.id = lesson.id /\ ~WritesStorage /\ completedInteractionIds # <<>>)
            => completedInteractionIds' = completedInteractionIds
      ]_vars

\* C22 witness: the lesson with two widgets has both ids in the set and under its
\* key, in the order they were answered, and the key of another lesson is
\* written too
C22_Witness ==
    /\ Len(completedInteractionIds) = 2
    /\ Range(completedInteractionIds) = interactionIds(lesson)
    /\ currentLessonInteractionsKey(lesson.id) \in DOMAIN localStorage
    /\ localStorage[currentLessonInteractionsKey(lesson.id)]
         = JSONStringify(completedInteractionIds)
    /\ \E key \in DOMAIN localStorage : key # currentLessonInteractionsKey(lesson.id)

\* the key of the lesson on the page holds a text that JSON.parse throws on
\* (the empty text is one) or that parses to something that is no array
StoredIsNoArray ==
    /\ lesson # NoLesson
    /\ currentLessonInteractionsKey(lesson.id) \in DOMAIN localStorage
    /\ \/ StoredUnderLessonKey(localStorage).threw
       \/ ~StoredUnderLessonKey(localStorage).isArray

\* C23: a lesson mounted over such a value has an empty completed set, no
\* exception has left the effect, and the links and the rendering are those of
\* the same mount with nothing stored under the key
C23_CorruptStoredIgnored ==
    StoredIsNoArray
      => LET nothingStored ==
                 lessonEffect(MapDelete(localStorage,
                                        currentLessonInteractionsKey(lesson.id)), lesson)
         IN /\ completedInteractionIds = <<>>
            /\ ~thrown
            /\ prevLesson = nothingStored.prevLesson
            /\ nextLesson = nothingStored.nextLesson
            /\ processedContentElements \in parseLessonContentAndCountInteractions(lesson)
            /\ paragraphs = renderContentWithParagraphs(processedContentElements)
            /\ totalInteractiveElements = count(processedContentElements)

\* C23 witness: the page came to a lesson whose key holds the JSON string '"x"',
\* after an interaction of another lesson was stored
C23_Witness ==
    /\ StoredIsNoArray
    /\ localStorage[currentLessonInteractionsKey(lesson.id)] = << Quote, 120, Quote >>
    /\ \E key \in DOMAIN localStorage : key # currentLessonInteractionsKey(lesson.id)
    /\ completedInteractionIds = <<>>
    /\ nextLesson # NoLesson

\* the ids of the widgets on the page
PageWidgetIds ==
    { processedContentElements[i].interactionId :
        i \in { j \in 1..Len(processedContentElements) :
                  processedContentElements[j].type \in WidgetTypes } }

\* the step calls markLessonCompletedAction
CallsCompletion == Len(inFlight') > Len(inFlight)

\* C27: markLessonCompletedAction is called only when the lesson is not among
\* the completed ones of the profile, no earlier call is unresolved, a profile is
\* there and every widget of the page has its id in the completed set; the
\* count compared is the number of widgets on the page
C27_CompletionGuarded ==
    [][CallsCompletion
         => /\ userProfile.present
            /\ lesson.id \notin userProfile.completedLessons
            /\ inFlight = <<>>
            /\ PageWidgetIds \subseteq Range(completedInteractionIds)
            /\ totalInteractiveElements = Cardinality(PageWidgetIds)
      ]_vars

\* ------------------------------ properties of the validation that waits
\* the session shows the submitted answer as correct
ShownCorrect == isSubmitted /\ isCorrect = "true"

\* C24: whenever the session shows a submitted answer as correct, the validator
\* judges the answer the session holds now correct for the exercise it holds now
C24_ShownCorrectIsCorrect ==
    (ShownCorrect /\ exercise # NoExercise) => Validate(Captured).correct

\* C25: the session carries a verdict only while it is submitted
C25_VerdictOnlyWhenSubmitted ==
    isCorrect # "null" => isSubmitted

\* the step is the end of a validation that was started for another exercise
\* than the one the session holds
LateCompletion ==
    /\ pending # <<>>
    /\ pending' = Tail(pending)
    /\ Head(pending).exercise # exercise

\* C26: the end of a validation started for another exercise changes neither
\* the verdict nor the feedback of the session
C26_LateCompletionIgnored ==
    [][LateCompletion => isCorrect' = isCorrect /\ itemFeedback' = itemFeedback]_vars


\* every item the board knows: the options, the listed and the categorized ones
BoardItems ==
    Range(Ids(Ex.options)) \cup Range(unassignedItems) \cup DOMAIN userCategorizations
        \cup UNION { Range(categorizedItemsMap[catId]) : catId \in DOMAIN categorizedItemsMap }

\* every category the board knows: the target categories, the keys of the
\* category lists and the categories recorded for an item
BoardCategories ==
    Range(Ex.targetCategories) \cup DOMAIN categorizedItemsMap
        \cup { userCategorizations[item] : item \in DOMAIN userCategorizations }

\* C28: in a drag-and-drop exercise the item lists and userCategorizations stay
\* in sync after any sequence of moves: an item has entry c in userCategorizations
\* exactly when it is in category c's list, it has no entry exactly when it is in
\* no category list, and no category list holds the same item twice
C28_DragStructuresInSync ==
    DragExercise =>
        /\ \A item \in BoardItems, c \in BoardCategories :
               (item \in DOMAIN userCategorizations /\ userCategorizations[item] = c)
                   <=> item \in Range(ItemsOf(categorizedItemsMap, c))
        /\ \A item \in BoardItems :
               item \notin DOMAIN userCategorizations
                   <=> \A c \in DOMAIN categorizedItemsMap :
                           item \notin Range(categorizedItemsMap[c])
        /\ \A c \in DOMAIN categorizedItemsMap :
               \A i, j \in 1..Len(categorizedItemsMap[c]) :
                   categorizedItemsMap[c][i] = categorizedItemsMap[c][j] => i = j

\* C28 witness: after several drops d2 and d1 lie in c1's list in that order,
\* both recorded under c1, and userAnswer still holds d1 under c2 from before
\* its last drop
C28_Witness ==
    /\ exercise = "dnd1"
    /\ ItemsOf(categorizedItemsMap, c1) = << d2, d1 >>
    /\ userCategorizations = [i \in {d1, d2} |-> c1]
    /\ userAnswer.kind = "object"
    /\ d1 \in DOMAIN userAnswer.val
    /\ userAnswer.val[d1] = c2


\* the step is a user action on the exercise card: selecting, typing, choosing
\* pair items, forming or removing a pair, reordering, dragging, dropping, submitting
UserStep ==
    \/ ValueChange
    \/ InputChange
    \/ CodeChange
    \/ SelectA
    \/ SelectB
    \/ handleAddAssociation
    \/ RemoveAssociation
    \/ MoveItem
    \/ DragStart
    \/ DragEnd
    \/ handleSubmit

\* the answer of the session: the single value, the pairs, the order, the board
answerVars ==
    << userAnswer, formedAssociations, orderedItems, unassignedItems,
       categorizedItemsMap, userCategorizations >>

\* a non-coding exercise is shown as submitted and correct
LockedCorrect ==
    /\ Rendered
    /\ Ex.type # "coding"
    /\ isSubmitted
    /\ isCorrect = "true"

\* C29: once a non-coding exercise has been submitted and judged correct, no user
\* action changes the answer, isSubmitted or isCorrect (the session stays so until
\* exerciseId changes), and in a drag-and-drop exercise no drag starts on an item
\* whose displayed feedback is correct
C29_CorrectSessionLocked ==
    [][ /\ (LockedCorrect /\ UserStep)
            => UNCHANGED << answerVars, isSubmitted, isCorrect >>
        /\ \A item \in {d1, d2} :
               (BoardRendered /\ DragDisabled(item)) => dragActive' # item ]_vars


\* the reflow state before the first token
NoParagraphs == [outputParagraphs |-> <<>>, currentParagraphChildren |-> <<>>]

\* C30: the two revisions of renderContentWithParagraphs give the same paragraphs
\* with the same children for the tokens of every lesson: in both the flush after
\* the loop leaves currentParagraphChildren empty, so the fallback branch is not
\* taken, and the two split patterns cut every text token into the same segments
C30_RevisionsAgree ==
    lesson # NoLesson
      => /\ renderContentWithParagraphsSecond(processedContentElements) = paragraphs
         /\ finalizeParagraph(forEachElement(processedContentElements, NoParagraphs))
                .currentParagraphChildren = <<>>
         /\ finalizeParagraph(forEachElementSecond(processedContentElements, NoParagraphs))
                .currentParagraphChildren = <<>>
         /\ \A i \in 1..Len(processedContentElements) :
                processedContentElements[i].type = "text"
                  => splitSegmentsSecond(processedContentElements[i].text)
                       = splitSegments(processedContentElements[i].text)

\* C30 witness: the text token '\' 'n' 'a': the separator comes first, the text
\* 'a' is still in the accumulator when the loop ends and the flush after the
\* loop makes it the only paragraph
C30_Witness ==
    /\ lesson # NoLesson
    /\ processedContentElements = << TextToken(<< Backslash, LetterN, 97 >>) >>
    /\ paragraphs = << << TextToken(<< 97 >>) >> >>

====
